---- MODULE Spec2Model ----
(***************************************************************************)
(* A model of the capability mesh runtime of                               *)
(* mesh1/protocols/example1/example1-rs/src/lib.rs.                        *)
(*                                                                         *)
(* Specification Spec is the routing engine: several cells, each with its  *)
(* handler table, atlas, seed, circuit registry and dedup stores, and a    *)
(* bounded number of route() invocations ("tasks") that run concurrently   *)
(* on the work-stealing runtime.  One step of a task is one access to the  *)
(* shared state of its cell (a DashMap or atomic operation) together with  *)
(* the task-local computation that follows it, so that every window in     *)
(* which another task can observe the shared state is kept.                *)
(*                                                                         *)
(* Specification AtlasSpec is the life of the atlas: provide(), listen(),   *)
(* the bootstrap from the seed, gossip rounds, cleanup passes and calls of  *)
(* merge_atlas(), each as one step.                                        *)
(*                                                                         *)
(* Fields the routing engine never reads (Signal.from, intent, proofs,     *)
(* atlas, extensions, registry_scanned; MeshError.timestamp, details;      *)
(* TraceResult.latency_micros; AtlasEntry.pub_key, metadata, latency_ms)   *)
(* are left out of the records.                                            *)
(***************************************************************************)
EXTENDS Integers, Sequences, FiniteSets, TLC

(***************************************************************************)
(* Bounds of the model.                                                    *)
(***************************************************************************)
\* route() invocations in total: those of clients and those started by RPCs
MaxTasks == 4
\* what the environment does to one run besides its first request: clock
\* ticks, shutdown() calls, repeated deliveries of the request, failed RPCs
MaxEvents == 1
\* AtlasSpec: the merges, gossip rounds, cleanup passes and waits of one run
MaxSteps == 3

(***************************************************************************)
(* The mesh: three cells.  Every cell listens on its own address.          *)
(***************************************************************************)
Cells == {"A", "B", "P"}

None == "none"

\* an address: "<scheme>://<host>"
Addr(scheme, host) == [scheme |-> scheme, host |-> host]

NoAddr == Addr("", "")

\* the address listen() records for a cell: "http://127.0.0.1:<port>"
ListenAddr(c) == Addr("http", c)

\* the address as the string the code passes around
AddrText(addr) == addr.scheme \o "://" \o addr.host

\* addr.starts_with("client://")
IsClientAddr(addr) == addr.scheme = "client"

\* the cell whose server answers at an address, None when nothing listens there
Resolve(addr) == IF \E c \in Cells : ListenAddr(c) = addr
                 THEN CHOOSE c \in Cells : ListenAddr(c) = addr
                 ELSE None

\* the handlers register_default_handlers() installs in every cell
DefaultCaps == {"mesh/ping", "mesh/health", "mesh/gossip", "cell/shutdown", "cell/inspect"}

\* a capability registered with provide()
TestCap == "test/echo"

\* CircuitBreaker::new(3, 30000) in forward_to_peer
CircuitThreshold == 3
CircuitRecoveryMs == 30000

\* join_all and take(): the candidates tried directly, the neighbours flooded
MaxDirect == 3
MaxFlood == 2

\* Signal.hops is a u8
HopsModulus == 256

\* AtlasEntry.gossip_hop_count is a u8
HopCountModulus == 256

\* merge_atlas: min(gossip_hop_count + 1, 3)
MaxGossipHops == 3

\* gossip(): take(2)
GossipFanout == 2

\* CellConfig::default: atlas_ttl_ms
AtlasTtlMs == 60000

\* cleanup(): nonces are kept for 60 s, failed results for 10 s
NonceRetainMs == 60000
CacheRetainMs == 10000

(***************************************************************************)
(* Sequences and finite maps.                                              *)
(***************************************************************************)
Contains(seq, x) == \E i \in DOMAIN seq : seq[i] = x

Take(seq, n) == SubSeq(seq, 1, IF Len(seq) < n THEN Len(seq) ELSE n)

\* the orders in which a concurrent map may iterate over the set S
Orders(S) == {s \in [1..Cardinality(S) -> S] :
                 \A i, j \in 1..Cardinality(S) : i # j => s[i] # s[j]}

Put(f, k, v) == [x \in DOMAIN f \cup {k} |-> IF x = k THEN v ELSE f[x]]

Del(f, k) == [x \in DOMAIN f \ {k} |-> f[x]]

EmptyMap == [x \in {} |-> None]

(***************************************************************************)
(* MeshError and TraceResult.                                              *)
(***************************************************************************)
NoError == [code |-> None, message |-> "", from |-> "", trace |-> <<>>, history |-> None]

\* MeshError::new: empty trace, no history
MeshErrorNew(code, message, from) ==
    [code |-> code, message |-> message, from |-> from, trace |-> <<>>, history |-> None]

with_trace(e, trace) == [e EXCEPT !.trace = trace]

with_history(e, history) == [e EXCEPT !.history = history]

NoValue == [tag |-> None, by |-> "", cap |-> ""]

\* the marker value {"_meshStatus": "DUPLICATE_ARRIVAL"}
DuplicateArrival == [tag |-> "DUPLICATE_ARRIVAL", by |-> "", cap |-> ""]

\* the output of the handler that cell c registered for cap
Output(c, cap) == [tag |-> "OUTPUT", by |-> c, cap |-> cap]

\* TraceResult::success
Success(cid, value) == [ok |-> TRUE, value |-> value, error |-> NoError, cid |-> cid]

\* TraceResult::failure
Failure(cid, err) == [ok |-> FALSE, value |-> NoValue, error |-> err, cid |-> cid]

NoResult == [ok |-> FALSE, value |-> NoValue, error |-> NoError, cid |-> 0]

(***************************************************************************)
(* Signal.                                                                 *)
(***************************************************************************)
\* deadline_ms: None
NoDeadline == -1

\* a variant that already expires a signal at its deadline: now_millis() >= d
is_expired_at_deadline(sig, t) == sig.deadline_ms # NoDeadline /\ t >= sig.deadline_ms

\* Signal::is_expired at wall-clock time t
is_expired(sig, t) == sig.deadline_ms # NoDeadline /\ t > sig.deadline_ms

\* Signal::record_step at wall-clock time t
record_step(sig, cell, action, t) ==
    [sig EXCEPT !.steps = Append(@, [cell |-> cell, timestamp |-> t, action |-> action])]
\* a mark_visited that records the address and leaves the id out
mark_visited_addr_only(sig, id, addr) ==
    [sig EXCEPT !.visited_addrs = IF Contains(@, addr) THEN @ ELSE Append(@, addr)]

\* Signal::mark_visited
mark_visited(sig, id, addr) ==
    [sig EXCEPT
        !.visited_cell_ids = IF Contains(@, id) THEN @ ELSE Append(@, id),
        !.visited_addrs = IF Contains(@, addr) THEN @ ELSE Append(@, addr)]

\* the four statements of route() that stamp an accepted signal
Stamp(sig, c, t) ==
    LET s1 == record_step(sig, c, "RECEIVED", t)
        s2 == mark_visited(s1, c, ListenAddr(c))
    IN  [s2 EXCEPT !.hops = (@ + 1) % HopsModulus,
                   !.trace = Append(@, <<c, t>>)]

\* the key of an execution slot: "<signal id>:<capability>"
ExecutionKey(sig) == <<sig.id, sig.capability>>

(***************************************************************************)
(* The signals a client hands to route(): a fresh signal of ask_mesh or    *)
(* Signal::new, with or without a deadline, and signals posted with a      *)
(* visited set of the client's making.                                     *)
(***************************************************************************)
SigIds == {1}

ExtVisited == {<<>>, <<"P">>}

ExtDeadlines == {NoDeadline, 0}

ExtSignals ==
    {[id |-> i, capability |-> TestCap, trace |-> <<>>, steps |-> <<>>,
      visited_cell_ids |-> v, visited_addrs |-> <<>>, hops |-> 0,
      flood_attempted |-> FALSE, deadline_ms |-> d] :
        i \in SigIds, v \in ExtVisited, d \in ExtDeadlines}

(***************************************************************************)
(* The state.                                                              *)
(***************************************************************************)
VARIABLES
    now,                \* the clock (now_millis, Instant::now)
    is_shutting_down,   \* per cell: 0 running, 1 shutting down, 2 shut down
    handlers,           \* per cell: the capabilities of the handler table
    atlas,              \* per cell: key -> AtlasEntry
    seed,               \* per cell: config.seed, an address or None
    circuits,           \* per cell: address -> CircuitBreaker
    seen_nonces,        \* per cell: signal id -> time of insertion
    active_executions,  \* per cell: execution key -> the task owning the slot
    result_cache,       \* per cell: cid -> (result, time)
    metrics,            \* per cell: the request counters
    tasks,              \* the route() invocations, in the order they started
    events,             \* what the environment has done so far, counted
    overflowed,         \* per cell: an arithmetic operation of the cell overflowed
    stuck,              \* per cell: a call of merge_atlas waits for a lock for ever
    bootstrap,          \* per cell: the task listen() spawns for bootstrap_from_seed
    shutdown_calls,     \* per cell: the shutdown() calls spawned and under way
    breaker_log,        \* the calls made on the circuit breaker under test
    ask                 \* the ask_mesh() or ask_all() call of the client

vars == <<now, is_shutting_down, handlers, atlas, seed, circuits, seen_nonces,
          active_executions, result_cache, metrics, tasks, events, overflowed, stuck,
          bootstrap, shutdown_calls, breaker_log, ask>>

\* the calls of the public API that are under way
apiState == <<shutdown_calls, breaker_log, ask>>

cellState == <<is_shutting_down, handlers, atlas, seed, overflowed, stuck, bootstrap,
               apiState>>

\* no shutdown() call has been made, none has been spawned by the
\* cell/shutdown handler, and none is between its swap and its store; the
\* task list self.tasks is empty and its mutex is free
NoShutdown == [made |-> 0, waiting |-> 0, running |-> FALSE, began |-> 0,
               spawned |-> 0, left |-> <<>>, holder |-> "none"]

\* the client has called neither ask_mesh() nor ask_all()
NoAsk == [pc |-> "idle"]

TaskIds == 1..Len(tasks)

\* a route() invocation: where it runs, who awaits it, and its local variables
NewTask(c, parent, sig) ==
    [cell |-> c,                \* the cell whose route() this is
     parent |-> parent,         \* the task whose rpc() awaits it, 0: a client
     incoming |-> sig,          \* the signal as it arrived
     signal |-> sig,            \* the local variable signal
     pc |-> "check",
     slot |-> NoResult,         \* the task's execution_slot
     result |-> NoResult,       \* what route() returned
     providers |-> <<>>,        \* forward_to_peer: the direct candidates
     idx |-> 0,                 \* forward_to_peer: the candidate being tried
     calls |-> <<>>,            \* the RPCs in flight: address, child, outcome
     ran |-> FALSE,             \* the local handler was invoked
     sent |-> 0,                \* requests this invocation put on the network
     seenAtCheck |-> FALSE,     \* the nonce was in seen_nonces at the dedup check
     loopSeen |-> NoResult]     \* the first LoopDetected result an RPC handed back

(***************************************************************************)
(* Deployments.  Init is a mesh after every cell has been constructed, has *)
(* registered its handlers and has returned from listen(), and after       *)
(* bootstrap and gossip have filled the atlases.  An atlas entry for cell  *)
(* x is a copy of the self entry x made in listen(): it lists the handlers *)
(* x had registered by then (provide() after listen() is not advertised).  *)
(* Cell P is the seed of the mesh: A and B either know every cell or none, *)
(* and either have P as their seed or have no seed.                        *)
(***************************************************************************)
\* AtlasEntry::new at wall-clock time t
AtlasEntryNew(id, addr, caps, t) ==
    [id |-> id, addr |-> addr, caps |-> caps, last_seen |-> t, last_gossiped |-> t,
     gossip_hop_count |-> 0]

\* AtlasEntry::new as listen() builds it, and as merge_atlas stores its copies
Entry(x, caps) == AtlasEntryNew(x, ListenAddr(x), caps, 0)

\* the cells that registered TestCap with provide()
ProviderChoices == {{"P"}, {"A", "P"}}

\* the atlas of c: its self entry, and entries for the peers it knows
AtlasOf(c, peers, advertised) ==
    [x \in peers \cup {c} |->
        Entry(x, DefaultCaps \cup (IF x \in advertised THEN {TestCap} ELSE {}))]

Init ==
    /\ now = 0
    /\ is_shutting_down = [c \in Cells |-> 0]
    /\ \E prov \in ProviderChoices, adv \in SUBSET Cells, known \in {{}, Cells} :
         /\ adv \in {{}, prov}
         /\ handlers = [c \in Cells |->
                           DefaultCaps \cup (IF c \in prov THEN {TestCap} ELSE {})]
         /\ atlas = [c \in Cells |-> AtlasOf(c, known, adv)]
    /\ seed \in {[c \in Cells |-> NoAddr],
                 [c \in Cells |-> IF c = "P" THEN NoAddr ELSE ListenAddr("P")]}
    /\ circuits = [c \in Cells |-> EmptyMap]
    /\ seen_nonces = [c \in Cells |-> EmptyMap]
    /\ active_executions = [c \in Cells |-> EmptyMap]
    /\ result_cache = [c \in Cells |-> EmptyMap]
    /\ metrics = [c \in Cells |-> [requests_total |-> 0, requests_success |-> 0,
                                   requests_failed |-> 0]]
    /\ tasks = <<>>
    /\ events = 0
    /\ overflowed = [c \in Cells |-> FALSE]
    /\ stuck = [c \in Cells |-> FALSE]
    /\ bootstrap = [c \in Cells |-> "done"]
    /\ shutdown_calls = [c \in Cells |-> NoShutdown]
    /\ breaker_log = <<>>
    /\ ask = NoAsk

(***************************************************************************)
(* The environment.                                                        *)
(***************************************************************************)
\* time passes
Tick ==
    /\ events < MaxEvents
    /\ events' = events + 1
    /\ now' = now + 1
    /\ UNCHANGED <<cellState, circuits, seen_nonces, active_executions,
                   result_cache, metrics, tasks>>

\* a client calls route() on cell c: ask_mesh, or handle_signal for a POST /
Deliver(c, sig) ==
    /\ tasks = <<>>
    /\ tasks' = Append(tasks, NewTask(c, 0, sig))
    /\ UNCHANGED <<now, cellState, circuits, seen_nonces, active_executions,
                   result_cache, metrics, events>>

\* a client delivers the signal of its request t to the same cell once more
Redeliver(t) ==
    /\ tasks[t].parent = 0
    /\ events < MaxEvents
    /\ Len(tasks) < MaxTasks
    /\ events' = events + 1
    /\ tasks' = Append(tasks, NewTask(tasks[t].cell, 0, tasks[t].incoming))
    /\ UNCHANGED <<now, cellState, circuits, seen_nonces, active_executions,
                   result_cache, metrics>>

\* shutdown(): is_shutting_down.swap(1) stores 1 whatever the flag was; the
\* call goes on when the flag was 0 and returns when it was not
ShutdownSwap(c) ==
    /\ is_shutting_down' = [is_shutting_down EXCEPT ![c] = 1]
    /\ shutdown_calls' = [shutdown_calls EXCEPT
                             ![c].made = @ + 1,
                             ![c].running = @ \/ is_shutting_down[c] = 0,
                             ![c].began = IF is_shutting_down[c] = 0 THEN now ELSE @]

\* a call of shutdown() reaches the swap
ShutdownBegin(c) ==
    /\ events < MaxEvents
    /\ events' = events + 1
    /\ ShutdownSwap(c)
    /\ UNCHANGED <<now, handlers, atlas, seed, overflowed, stuck, bootstrap, circuits,
                   seen_nonces, active_executions, result_cache, metrics, tasks,
                   breaker_log, ask>>

\* shutdown(): the task list is drained, store 2 and drop the guard of the
\* list
ShutdownEnd(c) ==
    /\ shutdown_calls[c].running
    /\ shutdown_calls[c].left = <<>>
    /\ shutdown_calls[c].holder # "listen"
    /\ is_shutting_down' = [is_shutting_down EXCEPT ![c] = 2]
    /\ shutdown_calls' = [shutdown_calls EXCEPT ![c].running = FALSE,
                                                ![c].holder = "none"]
    /\ UNCHANGED <<now, handlers, atlas, seed, overflowed, stuck, bootstrap, circuits,
                   seen_nonces, active_executions, result_cache, metrics, tasks, events,
                   breaker_log, ask>>

(***************************************************************************)
(* route().                                                                *)
(***************************************************************************)
\* a task returns r from route() before an execution slot exists
Return(t, r) == [tasks EXCEPT ![t].pc = "done", ![t].result = r]

\* a variant that only turns requests away once shutdown() has finished
ShutDownOnly(c) == is_shutting_down[c] > 1

\* self.is_shutting_down.load() > 0
ShuttingDown(c) == is_shutting_down[c] > 0

\* a variant without the deduplication check
SeenNonceNever(c, id) == FALSE

\* self.seen_nonces.contains_key(&signal.id)
SeenNonce(c, id) == id \in DOMAIN seen_nonces[c]

\* the checks at the head of route(): deadline, shutdown, seen_nonces.contains_key
RouteCheck(t) ==
    LET c == tasks[t].cell
        sig == tasks[t].signal
    IN  /\ tasks[t].pc = "check"
        /\ IF is_expired(sig, now)
           THEN tasks' = Return(t, Failure(sig.id,
                    with_trace(MeshErrorNew("TIMEOUT", "Signal deadline exceeded", c),
                               sig.trace)))
           ELSE IF ShuttingDown(c)
           THEN tasks' = Return(t, Failure(sig.id,
                    MeshErrorNew("NOT_READY", "Cell is shutting down", c)))
           ELSE IF SeenNonce(c, sig.id)
           THEN tasks' = [Return(t, Success(sig.id, DuplicateArrival))
                             EXCEPT ![t].seenAtCheck = TRUE]
           ELSE tasks' = [tasks EXCEPT ![t].pc = "accept"]
        /\ UNCHANGED <<now, cellState, circuits, seen_nonces, active_executions,
                       result_cache, metrics, events>>

\* seen_nonces.insert, the loop check, the stamping of the signal, the
\* request-joining lookup and the creation of the execution slot
RouteAccept(t) ==
    LET c == tasks[t].cell
        sig == tasks[t].signal
        stamped == Stamp(sig, c, now)
        key == ExecutionKey(stamped)
        act == active_executions[c]
    IN  /\ tasks[t].pc = "accept"
        /\ seen_nonces' = [seen_nonces EXCEPT ![c] = Put(@, sig.id, now)]
        /\ IF Contains(sig.visited_cell_ids, c)
           THEN /\ tasks' = Return(t, Failure(sig.id,
                        with_history(
                            with_trace(MeshErrorNew("LOOP_DETECTED", "Signal loop detected", c),
                                       sig.trace),
                            sig.steps)))
                /\ UNCHANGED active_executions
           ELSE IF key \in DOMAIN act /\ tasks[act[key]].slot # NoResult
           THEN /\ tasks' = [Return(t, tasks[act[key]].slot) EXCEPT ![t].signal = stamped]
                /\ UNCHANGED active_executions
           ELSE /\ tasks' = [tasks EXCEPT ![t].signal = stamped, ![t].pc = "execute"]
                /\ active_executions' = [active_executions EXCEPT ![c] = Put(@, key, t)]
        /\ UNCHANGED <<now, cellState, circuits, result_cache, metrics, events>>

\* what the handler a cell registered with provide() can return for a signal:
\* Ok(output) becomes a success, Err(e) a failure carrying e as it is
HandlerResults(c, sig) ==
    {Success(sig.id, Output(c, sig.capability)),
     Failure(sig.id, MeshErrorNew("HANDLER_ERROR", "handler failed", c))}

\* a variant of execute() that never looks into the handler table
HasLocalHandlerNever(c, cap) == FALSE

\* self.handlers.get(cap) finds a handler
HasLocalHandler(c, cap) == cap \in handlers[c]

\* execute() finds a local handler: the handler runs, and route() stores its
\* result in the execution slot
ExecuteLocal(t) ==
    LET c == tasks[t].cell
        sig == record_step(tasks[t].signal, c, "LOCAL_HANDLER", now)
    IN  /\ tasks[t].pc = "execute"
        /\ HasLocalHandler(c, sig.capability)
        /\ \E r \in HandlerResults(c, sig) :
             tasks' = [tasks EXCEPT ![t].signal = sig, ![t].ran = TRUE,
                                    ![t].slot = r, ![t].pc = "publish"]
        /\ UNCHANGED <<now, cellState, circuits, seen_nonces, active_executions,
                       result_cache, metrics, events>>

\* the tail of route(): remove the execution key, cache a success, count, return
Publish(t) ==
    LET c == tasks[t].cell
        r == tasks[t].slot
    IN  /\ tasks[t].pc = "publish"
        /\ active_executions' =
             [active_executions EXCEPT ![c] = Del(@, ExecutionKey(tasks[t].signal))]
        /\ result_cache' = IF r.ok
                           THEN [result_cache EXCEPT ![c] = Put(@, r.cid, <<r, now>>)]
                           ELSE result_cache
        /\ metrics' = [metrics EXCEPT
                          ![c].requests_total = @ + 1,
                          ![c].requests_success = IF r.ok THEN @ + 1 ELSE @,
                          ![c].requests_failed = IF r.ok THEN @ ELSE @ + 1]
        /\ tasks' = Return(t, r)
        /\ UNCHANGED <<now, cellState, circuits, seen_nonces, events>>

(***************************************************************************)
(* CircuitBreaker.                                                         *)
(***************************************************************************)
\* CircuitBreaker::new
NewCircuit == [failures |-> 0, last_failure |-> 0]

\* CircuitBreaker::record_failure at time t
record_failure(cb, t) == [failures |-> cb.failures + 1, last_failure |-> t]

\* CircuitBreaker::record_success
record_success(cb) == [cb EXCEPT !.failures = 0]
\* a variant that opens only above the threshold: failures > threshold
is_open_above_threshold(cb, t) ==
    /\ cb.failures > CircuitThreshold
    /\ (IF t > cb.last_failure THEN t - cb.last_failure ELSE 0) < CircuitRecoveryMs

\* CircuitBreaker::is_open at time t
is_open(cb, t) ==
    /\ cb.failures >= CircuitThreshold
    /\ (IF t > cb.last_failure THEN t - cb.last_failure ELSE 0) < CircuitRecoveryMs

\* rpc(): the breaker of the address, when there is one, is open
CircuitOpen(c, addr) == addr \in DOMAIN circuits[c] /\ is_open(circuits[c][addr], now)

\* rpc(): after rpc_raw the breaker of the address, when there is one, records
\* the outcome
RpcRecord(circ, addr, r, t) ==
    IF addr \in DOMAIN circ
    THEN Put(circ, addr, IF r.ok THEN record_success(circ[addr])
                                 ELSE record_failure(circ[addr], t))
    ELSE circ

\* forward_to_peer: circuits.entry(addr).or_insert_with(new).record_failure()
ForwardRecordFailure(circ, addr, t) ==
    Put(circ, addr, record_failure(IF addr \in DOMAIN circ THEN circ[addr] ELSE NewCircuit, t))

(***************************************************************************)
(* rpc() and rpc_raw(): one call is a record of the address, the task that *)
(* serves it at the peer (0 when the request reached no peer), whether the *)
(* request went onto the network, and the result once it is known.         *)
(***************************************************************************)
Call(addr, child, net, res) == [addr |-> addr, child |-> child, net |-> net, res |-> res]

\* rpc() returns CircuitOpen without touching the network
CircuitOpenResult(sig, addr) ==
    Failure(sig.id, MeshErrorNew("CIRCUIT_OPEN", "Circuit breaker open", AddrText(addr)))

\* rpc_raw(): the failures of the transport
TransportFailure(sig, addr, code) ==
    Failure(sig.id, MeshErrorNew(code, "RPC failed", AddrText(addr)))

\* the result of a call: known at once, or that of the task serving it
CallDone(call) == IF call.child = 0 THEN TRUE ELSE tasks[call.child].pc = "done"

CallResult(call) == IF call.child = 0 THEN call.res ELSE tasks[call.child].result

IsLoopDetected(r) == ~r.ok /\ r.error.code = "LOOP_DETECTED"

\* the record of the first LoopDetected result among the results rs
NoteLoop(seen, rs) ==
    IF seen # NoResult \/ ~\E k \in DOMAIN rs : IsLoopDetected(rs[k])
    THEN seen
    ELSE rs[CHOOSE k \in DOMAIN rs : /\ IsLoopDetected(rs[k])
                                     /\ \A j \in 1..(k - 1) : ~IsLoopDetected(rs[j])]

(***************************************************************************)
(* execute() without a local handler: forward_to_peer().                   *)
(***************************************************************************)
\* a forward_to_peer whose direct candidates may be at the cell's own address
ProviderSetAnyAddr(c, sig) ==
    {e \in {atlas[c][k] : k \in DOMAIN atlas[c]} :
        /\ sig.capability \in e.caps
        /\ (e.id = None \/ ~Contains(sig.visited_cell_ids, e.id))
        /\ ~IsClientAddr(e.addr)}

\* the direct candidates: the atlas entries that list the capability, at
\* another address, not visited, and not at a client:// address
ProviderSet(c, sig) ==
    {e \in {atlas[c][k] : k \in DOMAIN atlas[c]} :
        /\ sig.capability \in e.caps
        /\ e.addr # ListenAddr(c)
        /\ (e.id = None \/ ~Contains(sig.visited_cell_ids, e.id))
        /\ ~IsClientAddr(e.addr)}
\* a variant that also floods the direct candidates
NeighborSetWithCandidates(c, sig, providers) ==
    {e \in {atlas[c][k] : k \in DOMAIN atlas[c]} :
        /\ e.addr # ListenAddr(c)
        /\ (e.id = None \/ ~Contains(sig.visited_cell_ids, e.id))}

\* the neighbours to flood: at another address, not visited, no direct candidate
NeighborSet(c, sig, providers) ==
    {e \in {atlas[c][k] : k \in DOMAIN atlas[c]} :
        /\ e.addr # ListenAddr(c)
        /\ (e.id = None \/ ~Contains(sig.visited_cell_ids, e.id))
        /\ ~\E i \in DOMAIN providers : providers[i].id = e.id}

\* the result forward_to_peer gives up with
NotFound(c, sig) ==
    Failure(sig.id,
        with_history(with_trace(MeshErrorNew("NOT_FOUND", "Routing Failed", c), sig.trace),
                     sig.steps))

\* forward_to_peer returns r: route() stores it in the execution slot
ForwardReturn(tk, t, r) == [tk EXCEPT ![t].slot = r, ![t].pc = "publish", ![t].calls = <<>>]

\* execute() finds no local handler and forward_to_peer collects the candidates
ExecuteForward(t) ==
    LET c == tasks[t].cell
        sig == tasks[t].signal
    IN  /\ tasks[t].pc = "execute"
        /\ ~HasLocalHandler(c, sig.capability)
        /\ \E order \in Orders(ProviderSet(c, sig)) :
             tasks' = [tasks EXCEPT ![t].providers = order, ![t].idx = 1, ![t].pc = "direct"]
        /\ UNCHANGED <<now, cellState, circuits, seen_nonces, active_executions,
                       result_cache, metrics, events>>

\* a direct try fails with r: record a failure against the peer, next candidate
DirectFailed(t, circ, addr, sig, net) ==
    /\ circuits' = [circuits EXCEPT ![tasks[t].cell] = ForwardRecordFailure(circ, addr, now)]
    /\ tasks' = [tasks EXCEPT ![t].signal = sig, ![t].idx = @ + 1, ![t].pc = "direct",
                              ![t].calls = <<>>, ![t].sent = @ + net]

\* the loop over the first MaxDirect candidates: record the step and call rpc()
DirectTry(t) ==
    LET c == tasks[t].cell
        i == tasks[t].idx
        tried == Take(tasks[t].providers, MaxDirect)
    IN  /\ tasks[t].pc = "direct"
        /\ IF i > Len(tried)
           THEN /\ tasks' = [tasks EXCEPT ![t].pc = "flood"]
                /\ UNCHANGED <<circuits, events>>
           ELSE LET addr == tried[i].addr
                    sig == record_step(tasks[t].signal, c,
                                       IF i = 1 THEN "P2P_ROUTE" ELSE "P2P_FAILOVER", now)
                IN  IF CircuitOpen(c, addr)
                    THEN /\ DirectFailed(t, circuits[c], addr, sig, 0)
                         /\ UNCHANGED events
                    ELSE \/ /\ Resolve(addr) # None
                            /\ Len(tasks) < MaxTasks
                            /\ tasks' = Append(
                                 [tasks EXCEPT ![t].signal = sig, ![t].pc = "await_direct",
                                               ![t].sent = @ + 1,
                                               ![t].calls = <<Call(addr, Len(tasks) + 1, TRUE,
                                                                   NoResult)>>],
                                 NewTask(Resolve(addr), t, sig))
                            /\ UNCHANGED <<circuits, events>>
                         \/ /\ Resolve(addr) = None \/ events < MaxEvents
                            /\ events' = IF Resolve(addr) = None THEN events ELSE events + 1
                            /\ LET r == TransportFailure(sig, addr, "RPC_UNREACHABLE")
                               IN  DirectFailed(t, RpcRecord(circuits[c], addr, r, now),
                                                addr, sig, 1)
        /\ UNCHANGED <<now, cellState, seen_nonces, active_executions, result_cache, metrics>>

\* the peer answered a direct try: rpc() records the outcome; a success or a
\* LoopDetected failure is the result of forward_to_peer, anything else is a
\* failure recorded against the peer
DirectReturn(t) ==
    LET c == tasks[t].cell
        call == tasks[t].calls[1]
        r == CallResult(call)
        circ == RpcRecord(circuits[c], call.addr, r, now)
    IN  /\ tasks[t].pc = "await_direct"
        /\ CallDone(call)
        /\ IF r.ok \/ IsLoopDetected(r)
           THEN /\ tasks' = ForwardReturn(
                               [tasks EXCEPT ![t].loopSeen = NoteLoop(@, <<r>>)], t, r)
                /\ circuits' = [circuits EXCEPT ![c] = circ]
           ELSE DirectFailed(t, circ, call.addr, tasks[t].signal, 0)
        /\ UNCHANGED <<now, cellState, seen_nonces, active_executions, result_cache,
                       metrics, events>>

\* the calls of a flood: per neighbour, rpc() answers CircuitOpen, or the
\* request reaches the peer (served = TRUE), or the transport fails
FloodCalls(c, sig, nbrs, served, first) ==
    [k \in DOMAIN nbrs |->
        IF CircuitOpen(c, nbrs[k].addr)
        THEN Call(nbrs[k].addr, 0, FALSE, CircuitOpenResult(sig, nbrs[k].addr))
        ELSE IF served[k]
        THEN Call(nbrs[k].addr,
                  first + Cardinality({j \in 1..k : served[j] /\ ~CircuitOpen(c, nbrs[j].addr)}),
                  TRUE, NoResult)
        ELSE Call(nbrs[k].addr, 0, TRUE,
                  TransportFailure(sig, nbrs[k].addr, "RPC_UNREACHABLE"))]

\* the tasks that serve the calls, in the order of the calls
RECURSIVE Children(_, _, _, _)
Children(t, sig, calls, k) ==
    IF k > Len(calls) THEN <<>>
    ELSE (IF calls[k].child = 0 THEN <<>> ELSE <<NewTask(Resolve(calls[k].addr), t, sig)>>)
         \o Children(t, sig, calls, k + 1)

\* flooding: skipped when the signal was flooded before; else mark the signal
\* and send it to at most MaxFlood neighbours at once
Flood(t) ==
    LET c == tasks[t].cell
        sig == [tasks[t].signal EXCEPT !.flood_attempted = TRUE]
    IN  /\ tasks[t].pc = "flood"
        /\ IF tasks[t].signal.flood_attempted
           THEN /\ tasks' = [tasks EXCEPT ![t].pc = "seed"]
                /\ UNCHANGED events
           ELSE \E order \in Orders(NeighborSet(c, tasks[t].signal, tasks[t].providers)) :
                  LET nbrs == Take(order, MaxFlood)
                  IN  \E served \in [DOMAIN nbrs -> BOOLEAN] :
                        LET calls == FloodCalls(c, sig, nbrs, served, Len(tasks))
                            kids == Children(t, sig, calls, 1)
                            lost == Cardinality({k \in DOMAIN nbrs :
                                        /\ Resolve(nbrs[k].addr) # None
                                        /\ ~served[k]
                                        /\ ~CircuitOpen(c, nbrs[k].addr)})
                        IN  /\ \A k \in DOMAIN nbrs :
                                 served[k] => /\ Resolve(nbrs[k].addr) # None
                                              /\ ~CircuitOpen(c, nbrs[k].addr)
                            /\ Len(tasks) + Len(kids) <= MaxTasks
                            /\ events + lost <= MaxEvents
                            /\ events' = events + lost
                            /\ tasks' = [tasks EXCEPT ![t].signal = sig,
                                            ![t].pc = "await_flood", ![t].calls = calls,
                                            ![t].sent = @ + Cardinality({k \in DOMAIN calls :
                                                                            calls[k].net})]
                                        \o kids
        /\ UNCHANGED <<now, cellState, circuits, seen_nonces, active_executions,
                       result_cache, metrics>>

\* rpc() of every flooded call records its outcome
RECURSIVE FloodRecord(_, _, _, _)
FloodRecord(circ, calls, k, t) ==
    IF k > Len(calls) THEN circ
    ELSE FloodRecord(IF calls[k].net
                     THEN RpcRecord(circ, calls[k].addr, CallResult(calls[k]), t)
                     ELSE circ,
                     calls, k + 1, t)

\* join_all has every result: the first success, in the order of the calls, is
\* the result of forward_to_peer; without one, go on to the seed
FloodJoin(t) ==
    LET c == tasks[t].cell
        calls == tasks[t].calls
        oks == {k \in DOMAIN calls : CallResult(calls[k]).ok}
        noted == [tasks EXCEPT ![t].loopSeen =
                     NoteLoop(@, [k \in DOMAIN calls |-> CallResult(calls[k])])]
    IN  /\ tasks[t].pc = "await_flood"
        /\ \A k \in DOMAIN calls : CallDone(calls[k])
        /\ circuits' = [circuits EXCEPT ![c] = FloodRecord(@, calls, 1, now)]
        /\ IF oks # {}
           THEN tasks' = ForwardReturn(noted, t,
                    CallResult(calls[CHOOSE k \in oks : \A j \in oks : k <= j]))
           ELSE tasks' = [noted EXCEPT ![t].pc = "seed", ![t].calls = <<>>]
        /\ UNCHANGED <<now, cellState, seen_nonces, active_executions, result_cache,
                       metrics, events>>

\* the last resort: rpc() to the seed when it is configured and not visited,
\* and its result, whatever it is, is the result of forward_to_peer; else
\* NotFound
SeedTry(t) ==
    LET c == tasks[t].cell
        addr == seed[c]
        sig == record_step(tasks[t].signal, c, "SEED_FALLBACK", now)
    IN  /\ tasks[t].pc = "seed"
        /\ IF addr # NoAddr /\ ~Contains(tasks[t].signal.visited_addrs, addr)
           THEN IF CircuitOpen(c, addr)
                THEN /\ tasks' = ForwardReturn([tasks EXCEPT ![t].signal = sig], t,
                                               CircuitOpenResult(sig, addr))
                     /\ UNCHANGED <<circuits, events>>
                ELSE \/ /\ Resolve(addr) # None
                        /\ Len(tasks) < MaxTasks
                        /\ tasks' = Append(
                             [tasks EXCEPT ![t].signal = sig, ![t].pc = "await_seed",
                                           ![t].sent = @ + 1,
                                           ![t].calls = <<Call(addr, Len(tasks) + 1, TRUE,
                                                               NoResult)>>],
                             NewTask(Resolve(addr), t, sig))
                        /\ UNCHANGED <<circuits, events>>
                     \/ /\ Resolve(addr) = None \/ events < MaxEvents
                        /\ events' = IF Resolve(addr) = None THEN events ELSE events + 1
                        /\ LET r == TransportFailure(sig, addr, "RPC_UNREACHABLE")
                           IN  /\ circuits' = [circuits EXCEPT
                                                  ![c] = RpcRecord(@, addr, r, now)]
                               /\ tasks' = ForwardReturn(
                                     [tasks EXCEPT ![t].signal = sig, ![t].sent = @ + 1],
                                     t, r)
           ELSE /\ tasks' = ForwardReturn(tasks, t, NotFound(c, tasks[t].signal))
                /\ UNCHANGED <<circuits, events>>
        /\ UNCHANGED <<now, cellState, seen_nonces, active_executions, result_cache, metrics>>

\* the seed answered: rpc() records the outcome and forward_to_peer returns it
SeedReturn(t) ==
    LET c == tasks[t].cell
        call == tasks[t].calls[1]
        r == CallResult(call)
    IN  /\ tasks[t].pc = "await_seed"
        /\ CallDone(call)
        /\ circuits' = [circuits EXCEPT ![c] = RpcRecord(@, call.addr, r, now)]
        /\ tasks' = ForwardReturn([tasks EXCEPT ![t].loopSeen = NoteLoop(@, <<r>>)], t, r)
        /\ UNCHANGED <<now, cellState, seen_nonces, active_executions, result_cache,
                       metrics, events>>

Next ==
    \/ Tick
    \/ \E c \in Cells, sig \in ExtSignals : Deliver(c, sig)
    \/ \E t \in TaskIds : Redeliver(t)
    \/ \E c \in Cells : ShutdownBegin(c)
    \/ \E c \in Cells : ShutdownEnd(c)
    \/ \E t \in TaskIds : RouteCheck(t)
    \/ \E t \in TaskIds : RouteAccept(t)
    \/ \E t \in TaskIds : ExecuteLocal(t)
    \/ \E t \in TaskIds : ExecuteForward(t)
    \/ \E t \in TaskIds : DirectTry(t)
    \/ \E t \in TaskIds : DirectReturn(t)
    \/ \E t \in TaskIds : Flood(t)
    \/ \E t \in TaskIds : FloodJoin(t)
    \/ \E t \in TaskIds : SeedTry(t)
    \/ \E t \in TaskIds : SeedReturn(t)
    \/ \E t \in TaskIds : Publish(t)

Spec == Init /\ [][Next]_vars

(***************************************************************************)
(* The atlas: provide(), listen(), bootstrap_from_seed(), gossip(),        *)
(* cleanup() and merge_atlas().  Specification AtlasSpec starts from cells *)
(* that have been constructed and have not yet called listen(); cells A    *)
(* and B take part, and B is configured with A as its seed.  "X" is the    *)
(* id of a peer outside the model, known only from what arrives about it.  *)
(***************************************************************************)
Hosts == {"A", "B"}

\* how long the clock may advance in one step: a moment, or more than the TTL
Delays == {1, AtlasTtlMs + 1}

\* u64::saturating_sub
saturating_sub(a, b) == IF a > b THEN a - b ELSE 0

Min(a, b) == IF a < b THEN a ELSE b

\* listen() has inserted the self entry
Listening(c) == c \in DOMAIN atlas[c]

\* merge_atlas: "if key_id == self.id { continue; }"
MergeSkipsSelf(c, k) == k = c

\* merge_atlas: the entry under key k is skipped as stale at time t
MergeSkipsStale(atl, k, e, t) ==
    saturating_sub(t, e.last_seen) > AtlasTtlMs /\ k \notin DOMAIN atl

\* merge_atlas: gossip_hop_count + 1 does not fit a u8
HopCountOverflows(e, via_gossip) ==
    via_gossip /\ e.gossip_hop_count + 1 >= HopCountModulus

\* merge_atlas: the entry as it is prepared for insertion at time t, the
\* addition wrapping around as it does in a build without overflow checks
MergePrepared(k, e, via_gossip, t) ==
    [e EXCEPT !.id = IF @ = None THEN k ELSE @,
              !.last_gossiped = t,
              !.gossip_hop_count = IF via_gossip
                                   THEN Min((@ + 1) % HopCountModulus, MaxGossipHops)
                                   ELSE 0,
              !.last_seen = IF via_gossip THEN @ ELSE t]

\* merge_atlas: the match on self.atlas.get(&key_id) takes the arm that inserts
MergeInserts(atl, k, e, via_gossip) ==
    ~(k \in DOMAIN atl /\ e.last_seen <= atl[k].last_seen /\ ~via_gossip)

\* merge_atlas: the entry under key k is neither the self entry nor stale
MergeProcesses(c, atl, k, e, t) ==
    ~MergeSkipsSelf(c, k) /\ ~MergeSkipsStale(atl, k, e, t)

\* merge_atlas: the arm that inserts is taken for a key the atlas holds.  The
\* scrutinee of the match, the Ref that DashMap::get returned, lives to the
\* end of the match and holds the read lock of the key's shard;
\* DashMap::insert then waits for the write lock of that shard and the call
\* never returns
MergeBlocks(c, atl, k, e, via_gossip, t) ==
    /\ MergeProcesses(c, atl, k, e, t)
    /\ k \in DOMAIN atl
    /\ MergeInserts(atl, k, MergePrepared(k, e, via_gossip, t), via_gossip)

BlockKeys(c, atl, incoming, via_gossip, t) ==
    {k \in DOMAIN incoming : MergeBlocks(c, atl, k, incoming[k], via_gossip, t)}

\* the keys of the incoming map at which the addition overflows
OverflowKeys(c, atl, incoming, via_gossip, t) ==
    {k \in DOMAIN incoming :
        /\ MergeProcesses(c, atl, k, incoming[k], t)
        /\ HopCountOverflows(incoming[k], via_gossip)}

\* merge_atlas: the atlas after the loop went through the keys K of the
\* incoming map at time t
MergeKeys(c, atl, incoming, K, via_gossip, t) ==
    LET ins == {k \in K :
                  /\ MergeProcesses(c, atl, k, incoming[k], t)
                  /\ MergeInserts(atl, k, MergePrepared(k, incoming[k], via_gossip, t),
                                  via_gossip)}
    IN  [k \in DOMAIN atl \cup ins |->
            IF k \in ins THEN MergePrepared(k, incoming[k], via_gossip, t) ELSE atl[k]]

MergeResult(atl, end, overflow) == [atlas |-> atl, end |-> end, overflow |-> overflow]

\* what a call of merge_atlas can come to.  The loop goes through the incoming
\* map in the order of a HashMap.  It returns when it met no key that blocks;
\* it is blocked at the first key that blocks, with the keys before it merged;
\* and in a build that checks arithmetic it panics at the first key whose hop
\* count overflows, where the other builds wrap around and go on
MergeOutcomes(c, atl, incoming, via_gossip, t) ==
    LET all == DOMAIN incoming
        B == BlockKeys(c, atl, incoming, via_gossip, t)
        O == OverflowKeys(c, atl, incoming, via_gossip, t)
    IN  {MergeResult(MergeKeys(c, atl, incoming, all, via_gossip, t), "returned", O # {}) :
            x \in IF B = {} THEN {1} ELSE {}}
        \cup {MergeResult(MergeKeys(c, atl, incoming, Kb[1], via_gossip, t), "blocked",
                          (Kb[1] \cup {Kb[2]}) \cap O # {}) :
                Kb \in (SUBSET (all \ B)) \X B}
        \cup {MergeResult(MergeKeys(c, atl, incoming, K, via_gossip, t), "panicked", TRUE) :
                K \in IF O = {} THEN {} ELSE SUBSET (all \ (B \cup O))}

\* route() of the cells in served takes in a mesh/gossip request with the
\* signal id: the nonce is recorded; where the handler returned, the result
\* is cached and counted
CellNo(c) == IF c = "A" THEN 1 ELSE IF c = "B" THEN 2 ELSE 3

\* Signal::new of the bootstrap and of a gossip round of cell c
BootstrapId(c) == 100 + 10 * events + CellNo(c)

GossipId(c) == 100 + 10 * events + 5 + CellNo(c)

ServedNonces(served, id) ==
    [c \in Cells |-> IF c \in served THEN Put(seen_nonces[c], id, now) ELSE seen_nonces[c]]

ServedCache(returned, id) ==
    [c \in Cells |-> IF c \in returned
                     THEN Put(result_cache[c], id, <<Success(id, NoValue), now>>)
                     ELSE result_cache[c]]

ServedMetrics(returned) ==
    [c \in Cells |-> IF c \in returned
                     THEN [metrics[c] EXCEPT !.requests_total = @ + 1,
                                             !.requests_success = @ + 1]
                     ELSE metrics[c]]

\* the maps that reach merge_atlas from outside the model, as the wire format
\* allows them: one entry under the cell's own id, or one entry under X that
\* may lack an id, carry the cell's id or carry the cell's address
WireEntry(i, a, ls, h) ==
    [id |-> i, addr |-> a, caps |-> {TestCap}, last_seen |-> ls, last_gossiped |-> ls,
     gossip_hop_count |-> h]

WireEntries(c) ==
    {WireEntry(ia[1], ia[2], ls, h) :
        ia \in {<<None, Addr("http", "X")>>, <<c, Addr("http", "X")>>,
                <<None, ListenAddr(c)>>},
        ls \in {0, now}, h \in {MaxGossipHops, HopCountModulus - 1}}

\* the map of a direct contact with X at the present moment
SightingOfX == [k \in {"X"} |-> WireEntry(None, Addr("http", "X"), now, 0)]

WireMaps(c) ==
    {[k \in {c} |-> WireEntry(None, Addr("http", "X"), now, 0)]}
    \cup {[k \in {"X"} |-> e] : e \in WireEntries(c)}

AtlasInit ==
    /\ now = 0
    /\ is_shutting_down = [c \in Cells |-> 0]
    /\ handlers = [c \in Cells |-> DefaultCaps]
    /\ atlas = [c \in Cells |-> EmptyMap]
    /\ seed \in {[c \in Cells |-> IF c = "B" THEN ListenAddr("A") ELSE NoAddr],
                 [c \in Cells |-> IF c = "P" THEN NoAddr ELSE ListenAddr("A")]}
    /\ circuits = [c \in Cells |-> EmptyMap]
    /\ seen_nonces = [c \in Cells |-> EmptyMap]
    /\ active_executions = [c \in Cells |-> EmptyMap]
    /\ result_cache = [c \in Cells |-> EmptyMap]
    /\ metrics = [c \in Cells |-> [requests_total |-> 0, requests_success |-> 0,
                                   requests_failed |-> 0]]
    /\ tasks = <<>>
    /\ events = 0
    /\ overflowed = [c \in Cells |-> FALSE]
    /\ stuck = [c \in Cells |-> FALSE]
    /\ bootstrap = [c \in Cells |-> "idle"]
    /\ shutdown_calls = [c \in Cells |-> NoShutdown]
    /\ breaker_log = <<>>
    /\ ask = NoAsk

\* provide(): the handler table gets the capability
Provide(c, cap) ==
    /\ cap \notin handlers[c]
    /\ handlers' = [handlers EXCEPT ![c] = @ \cup {cap}]
    /\ UNCHANGED <<apiState, now, is_shutting_down, atlas, seed, overflowed, stuck, bootstrap, circuits,
                   seen_nonces, active_executions, result_cache, metrics, tasks, events>>

\* listen(): the self entry lists the handlers registered so far, and
\* start_background_tasks spawns the bootstrap when a seed is configured
Listen(c) ==
    /\ ~Listening(c)
    /\ atlas' = [atlas EXCEPT ![c] = Put(@, c, AtlasEntryNew(c, ListenAddr(c), handlers[c], now))]
    /\ bootstrap' = [bootstrap EXCEPT ![c] = IF seed[c] = NoAddr THEN "idle" ELSE "pending"]
    /\ UNCHANGED <<apiState, now, is_shutting_down, handlers, seed, overflowed, stuck, circuits,
                   seen_nonces, active_executions, result_cache, metrics, tasks, events>>

\* the clock advances; a bootstrap, which starts 100 ms after listen() and
\* makes ten attempts of at most rpc_timeout_ms with short sleeps between
\* them, is over before atlas_ttl_ms have passed
Elapse(d) ==
    /\ events < MaxSteps
    /\ d > AtlasTtlMs => \A c \in Cells : bootstrap[c] # "pending"
    /\ events' = events + 1
    /\ now' = now + d
    /\ UNCHANGED <<cellState, circuits, seen_nonces, active_executions, result_cache,
                   metrics, tasks>>

\* merge_atlas() called with a map from outside
MergeAtlas(c, incoming, via_gossip) ==
    /\ Listening(c)
    /\ events < MaxSteps
    /\ events' = events + 1
    /\ \E m \in MergeOutcomes(c, atlas[c], incoming, via_gossip, now) :
         /\ atlas' = [atlas EXCEPT ![c] = m.atlas]
         /\ overflowed' = [overflowed EXCEPT ![c] = @ \/ m.overflow]
         /\ stuck' = [stuck EXCEPT ![c] = @ \/ m.end = "blocked"]
    /\ UNCHANGED <<apiState, now, is_shutting_down, handlers, seed, bootstrap, circuits,
                   seen_nonces, active_executions, result_cache, metrics, tasks>>

\* the mesh/gossip handler of cell h, when h is among the cells served: it
\* merges a map that is not empty as hearsay
NoMerge(h) == MergeResult(atlas[h], "returned", FALSE)

GossipOutcomes(h, served, incoming) ==
    IF h \in served /\ DOMAIN incoming # {}
    THEN MergeOutcomes(h, atlas[h], incoming, TRUE, now)
    ELSE {NoMerge(h)}

GossipServed(served, incoming) ==
    {[h \in Cells |-> IF h = "A" THEN a ELSE IF h = "B" THEN b ELSE p] :
        a \in GossipOutcomes("A", served, incoming),
        b \in GossipOutcomes("B", served, incoming),
        p \in GossipOutcomes("P", served, incoming)}

\* the cells among served whose handler returned its answer
Returned(served, ms) == {h \in served : ms[h].end = "returned"}

\* bootstrap_from_seed(): the seed answers the announcement of the self entry
\* with its atlas, and the cell merges an answer that is not empty as heard
\* directly
Bootstrap(c) ==
    LET s == Resolve(seed[c])
        initial_atlas == [k \in {c} |-> atlas[c][c]]
        id == BootstrapId(c)
    IN  /\ bootstrap[c] = "pending"
        /\ s # None
        /\ \E ms \in GossipServed({s}, initial_atlas) :
             /\ Listening(s)
             /\ ms[s].end = "returned"
             /\ \E m \in MergeOutcomes(c, IF c = s THEN ms[s].atlas ELSE atlas[c],
                                       ms[s].atlas, FALSE, now) :
                  /\ atlas' = [h \in Cells |-> IF h = c THEN m.atlas ELSE ms[h].atlas]
                  /\ overflowed' = [h \in Cells |->
                                      overflowed[h] \/ ms[h].overflow \/ (h = c /\ m.overflow)]
                  /\ stuck' = [stuck EXCEPT ![c] = @ \/ m.end = "blocked"]
                  /\ bootstrap' = [bootstrap EXCEPT
                                      ![c] = IF m.end = "returned" THEN "done" ELSE "blocked"]
        /\ seen_nonces' = ServedNonces({s}, id)
        /\ result_cache' = ServedCache({s}, id)
        /\ metrics' = ServedMetrics({s})
        /\ UNCHANGED <<apiState, now, is_shutting_down, handlers, seed, circuits, active_executions,
                       tasks, events>>

\* bootstrap_from_seed(): none of the ten attempts got an answer, the seed
\* not listening or its handler not returning
BootstrapGiveUp(c) ==
    LET s == Resolve(seed[c])
        initial_atlas == [k \in {c} |-> atlas[c][c]]
        id == BootstrapId(c)
    IN  /\ bootstrap[c] = "pending"
        /\ bootstrap' = [bootstrap EXCEPT ![c] = "failed"]
        /\ IF s = None
           THEN UNCHANGED <<atlas, overflowed, stuck, seen_nonces>>
           ELSE IF ~Listening(s)
           THEN UNCHANGED <<atlas, overflowed, stuck, seen_nonces>>
           ELSE \E ms \in GossipServed({s}, initial_atlas) :
                   /\ ms[s].end # "returned"
                   /\ atlas' = [h \in Cells |-> ms[h].atlas]
                   /\ overflowed' = [h \in Cells |-> overflowed[h] \/ ms[h].overflow]
                   /\ stuck' = [h \in Cells |-> stuck[h] \/ ms[h].end = "blocked"]
                   /\ seen_nonces' = ServedNonces({s}, id)
        /\ UNCHANGED <<apiState, now, is_shutting_down, handlers, seed, circuits, active_executions,
                       result_cache, metrics, tasks, events>>

\* gossip(): the peers, and the targets taken from them in iteration order
GossipPeers(c) ==
    {k \in DOMAIN atlas[c] : k # c /\ ~IsClientAddr(atlas[c][k].addr)}

GossipTargets(c, order) ==
    Take(SelectSeq(order, LAMBDA k : atlas[c][k].id # c), GossipFanout)

\* gossip(): the whole atlas goes to the targets; the answers are dropped
Gossip(c) ==
    /\ Listening(c)
    /\ events < MaxSteps
    /\ GossipPeers(c) # {}
    /\ \E order \in Orders(GossipPeers(c)) :
         LET targets == GossipTargets(c, order)
             served == {h \in Cells : /\ Listening(h)
                                      /\ \E i \in DOMAIN targets :
                                            /\ ~CircuitOpen(c, atlas[c][targets[i]].addr)
                                            /\ Resolve(atlas[c][targets[i]].addr) = h}
         IN  \E ms \in GossipServed(served, atlas[c]) :
               /\ atlas' = [h \in Cells |-> ms[h].atlas]
               /\ overflowed' = [h \in Cells |-> overflowed[h] \/ ms[h].overflow]
               /\ stuck' = [h \in Cells |-> stuck[h] \/ ms[h].end = "blocked"]
               /\ seen_nonces' = ServedNonces(served, GossipId(c))
               /\ result_cache' = ServedCache(Returned(served, ms), GossipId(c))
               /\ metrics' = ServedMetrics(Returned(served, ms))
    /\ events' = events + 1
    /\ UNCHANGED <<apiState, now, is_shutting_down, handlers, seed, bootstrap, circuits,
                   active_executions, tasks>>

\* a cleanup filter that does not spare the self entry
CleanupRemovesOld(c, k, e, t) == 0 + e.last_seen < t

\* cleanup(): the filter of the atlas entries to remove; the first summand of
\* the source, now.duration_since(Instant::now()), is zero
CleanupRemoves(c, k, e, t) == k # c /\ 0 + e.last_seen < t

Cleanup(c) ==
    /\ Listening(c)
    /\ events < MaxSteps
    /\ events' = events + 1
    /\ atlas' = [atlas EXCEPT ![c] =
                    [k \in {k \in DOMAIN @ : ~CleanupRemoves(c, k, @[k], now)} |-> @[k]]]
    /\ seen_nonces' = [seen_nonces EXCEPT ![c] =
                    [k \in {k \in DOMAIN @ : now - @[k] < NonceRetainMs} |-> @[k]]]
    /\ result_cache' = [result_cache EXCEPT ![c] =
                    [k \in {k \in DOMAIN @ : @[k][1].ok \/ now - @[k][2] < CacheRetainMs}
                       |-> @[k]]]
    /\ UNCHANGED <<apiState, now, is_shutting_down, handlers, seed, overflowed, stuck, bootstrap, circuits,
                   active_executions, metrics, tasks>>

AtlasNext ==
    \/ \E c \in {"A"} : Provide(c, TestCap)
    \/ \E c \in Hosts : Listen(c)
    \/ \E c \in Hosts : Bootstrap(c)
    \/ \E c \in Hosts : BootstrapGiveUp(c)
    \/ \E c \in Hosts : Gossip(c)
    \/ \E c \in Hosts : Cleanup(c)
    \/ \E d \in Delays : Elapse(d)
    \/ \E c \in {"A"}, via_gossip \in BOOLEAN : \E incoming \in WireMaps(c) :
          MergeAtlas(c, incoming, via_gossip)
    \/ MergeAtlas("B", SightingOfX, FALSE)

AtlasSpec == AtlasInit /\ [][AtlasNext]_vars

(***************************************************************************)
(* Properties of routing.                                                  *)
(***************************************************************************)
\* the invocations of route() that clients started
Roots == {t \in TaskIds : tasks[t].parent = 0}

\* the invocations of route() on cell c for signal id i
Arrivals(c, i) == {t \in TaskIds : tasks[t].cell = c /\ tasks[t].incoming.id = i}

\* forward_to_peer has returned in invocation t
Forwarded(t) ==
    /\ tasks[t].incoming.capability \notin handlers[tasks[t].cell]
    /\ tasks[t].slot # NoResult

\* the deadline of the signal is earlier than time t
PastDeadline(sig, t) == sig.deadline_ms # NoDeadline /\ sig.deadline_ms < t

\* a step of invocation t that starts at the head of route()
HeadStep(t) == tasks[t].pc = "check" /\ tasks'[t] # tasks[t]

\* the step of t ends route() without a handler run, a request or a new invocation
EndsQuietly(t) ==
    /\ tasks'[t].pc = "done"
    /\ ~tasks'[t].ran
    /\ tasks'[t].sent = 0
    /\ Len(tasks') = Len(tasks)

\* C1: among the route() calls on one cell that carry one signal id, however
\* they interleave, the handler runs at most once
C1_HandlerRunsAtMostOnce ==
    \A c \in Cells, i \in SigIds :
        Cardinality({t \in Arrivals(c, i) : tasks[t].ran}) <= 1

\* C2: when route() returns ok for the first-seen signal of a single client
\* request, the value is the output of a handler registered for the capability,
\* never the DUPLICATE_ARRIVAL marker of a peer
C2_OkIsHandlerOutput ==
    \A t \in Roots :
        (/\ Cardinality(Roots) = 1
         /\ ~tasks[t].seenAtCheck
         /\ tasks[t].pc = "done"
         /\ tasks[t].result.ok)
        => /\ tasks[t].result.value.tag = "OUTPUT"
           /\ tasks[t].result.value.cap = tasks[t].incoming.capability

\* C3: a signal that is not expired and arrives at a running cell with the
\* cell's id in visited_cell_ids goes on to the loop check and ends there with
\* LoopDetected, whatever seen_nonces holds, without a handler run or an RPC
C3_VisitedIsLoopDetected ==
    [][\A t \in TaskIds :
        LET c == tasks[t].cell
            sig == tasks[t].incoming
        IN  (Contains(sig.visited_cell_ids, c) /\ tasks'[t] # tasks[t])
            => \/ /\ tasks[t].pc = "check"
                  /\ PastDeadline(sig, now) \/ is_shutting_down[c] > 0
               \/ /\ tasks[t].pc = "check"
                  /\ tasks'[t].pc = "accept"
               \/ /\ tasks[t].pc = "accept"
                  /\ EndsQuietly(t)
                  /\ IsLoopDetected(tasks'[t].result)]_vars

\* C4: an invocation on a cell that has a handler for the capability never
\* sends a request or starts an invocation on a peer, and what it stores in its
\* execution slot is the result of the local handler
C4_LocalNeverForwarded ==
    \A t \in TaskIds :
        tasks[t].incoming.capability \in handlers[tasks[t].cell]
        => /\ tasks[t].sent = 0
           /\ tasks[t].calls = <<>>
           /\ \A u \in TaskIds : tasks[u].parent # t
           /\ tasks[t].pc \in {"check", "accept", "execute", "publish", "done"}
           /\ (tasks[t].slot # NoResult => tasks[t].ran)

\* C4: the handler of a cell has served a request while the atlas of the cell
\* lists another cell as a provider of the capability
C4_Witness ==
    \E t \in TaskIds :
        LET c == tasks[t].cell
        IN  /\ tasks[t].pc = "done"
            /\ tasks[t].ran
            /\ tasks[t].result.ok
            /\ \E k \in DOMAIN atlas[c] :
                 /\ atlas[c][k].id # c
                 /\ tasks[t].incoming.capability \in atlas[c][k].caps

\* C5: when forward_to_peer fails and no RPC of it returned LoopDetected, its
\* result is NotFound with the trace and the narrative of the signal; the
\* failure of one peer, the seed included, is never the result
C5_AllFailedIsNotFound ==
    \A t \in TaskIds :
        (Forwarded(t) /\ ~tasks[t].slot.ok /\ tasks[t].loopSeen = NoResult)
        => /\ tasks[t].slot.error.code = "NOT_FOUND"
           /\ tasks[t].slot.error.trace = tasks[t].signal.trace
           /\ tasks[t].slot.error.history = tasks[t].signal.steps

\* C6: when the one handler that ran for a client's request returned an error,
\* the client gets that error, code and message, with a narrative attached
C6_HandlerErrorVerbatim ==
    \A t \in Roots, u \in TaskIds :
        (/\ Cardinality(Roots) = 1
         /\ tasks[t].pc = "done"
         /\ tasks[u].ran
         /\ ~tasks[u].slot.ok
         /\ \A v \in TaskIds : tasks[v].ran => v = u)
        => /\ ~tasks[t].result.ok
           /\ tasks[t].result.error.code = tasks[u].slot.error.code
           /\ tasks[t].result.error.message = tasks[u].slot.error.message
           /\ tasks[t].result.error.history # None

\* C7: once an RPC of forward_to_peer has returned LoopDetected, forward_to_peer
\* has returned that result and tries nothing else
C7_LoopDetectedTerminal ==
    \A t \in TaskIds :
        tasks[t].loopSeen # NoResult
        => /\ tasks[t].pc \in {"publish", "done"}
           /\ tasks[t].slot = tasks[t].loopSeen

\* C8: route() on a running cell with a signal that is not expired and whose id
\* is in seen_nonces returns the DUPLICATE_ARRIVAL success without a handler run
\* or an RPC; a handler only runs for an id that is in seen_nonces; and a
\* finished route() does nothing more
C8_DuplicateArrival ==
    [][\A t \in TaskIds :
        LET c == tasks[t].cell
            sig == tasks[t].incoming
        IN  /\ (/\ HeadStep(t)
                /\ ~PastDeadline(sig, now)
                /\ is_shutting_down[c] = 0
                /\ sig.id \in DOMAIN seen_nonces[c])
               => /\ EndsQuietly(t)
                  /\ tasks'[t].result = Success(sig.id, DuplicateArrival)
            /\ tasks'[t].ran => sig.id \in DOMAIN seen_nonces'[c]
            /\ tasks[t].pc = "done" => tasks'[t] = tasks[t]]_vars

\* C8: a client delivered a signal twice, one after the other: the first call
\* ran the handler, the second got the marker and ran nothing
C8_Witness ==
    \E t, u \in Roots :
        /\ t < u
        /\ tasks[t].cell = tasks[u].cell
        /\ tasks[t].incoming.id = tasks[u].incoming.id
        /\ tasks[t].ran
        /\ tasks[u].pc = "done"
        /\ tasks[u].result = Success(tasks[u].incoming.id, DuplicateArrival)
        /\ ~tasks[u].ran
        /\ Cardinality({v \in Arrivals(tasks[t].cell, tasks[t].incoming.id) : tasks[v].ran}) = 1

\* C9: route() on a signal past its deadline returns Timeout from the cell with
\* the trace of the signal, runs no handler, sends nothing and leaves
\* seen_nonces, active_executions and result_cache alone; route() on a signal
\* with no deadline or a deadline not before now does not return Timeout there
C9_ExpiredIsTimeout ==
    [][\A t \in TaskIds :
        LET c == tasks[t].cell
            sig == tasks[t].incoming
        IN  HeadStep(t)
            => IF PastDeadline(sig, now)
               THEN /\ EndsQuietly(t)
                    /\ ~tasks'[t].result.ok
                    /\ tasks'[t].result.error.code = "TIMEOUT"
                    /\ tasks'[t].result.error.from = c
                    /\ tasks'[t].result.error.trace = sig.trace
                    /\ UNCHANGED <<seen_nonces, active_executions, result_cache>>
               ELSE ~(tasks'[t].pc = "done" /\ tasks'[t].result.error.code = "TIMEOUT")]_vars

\* C9: a cell that has seen the id of a signal turned a later copy of it away
\* with Timeout, and not as a duplicate
C9_Witness ==
    \E t \in TaskIds :
        LET c == tasks[t].cell
        IN  /\ tasks[t].pc = "done"
            /\ tasks[t].result.error.code = "TIMEOUT"
            /\ tasks[t].result.error.from = c
            /\ tasks[t].result.error.trace = tasks[t].incoming.trace
            /\ tasks[t].incoming.id \in DOMAIN seen_nonces[c]

\* C10: once the lifecycle flag of a cell is 1 or more, route() on a signal that
\* is not expired returns NotReady, runs no handler, sends nothing and records
\* no nonce
C10_ShutdownIsNotReady ==
    [][\A t \in TaskIds :
        LET c == tasks[t].cell
            sig == tasks[t].incoming
        IN  (HeadStep(t) /\ is_shutting_down[c] >= 1 /\ ~PastDeadline(sig, now))
            => /\ EndsQuietly(t)
               /\ ~tasks'[t].result.ok
               /\ tasks'[t].result.error.code = "NOT_READY"
               /\ tasks'[t].result.error.from = c
               /\ UNCHANGED seen_nonces]_vars

\* C10: a cell in shutdown turned a signal away whose id it has never recorded
C10_Witness ==
    \E t \in TaskIds :
        LET c == tasks[t].cell
        IN  /\ tasks[t].pc = "done"
            /\ is_shutting_down[c] >= 1
            /\ tasks[t].result.error.code = "NOT_READY"
            /\ tasks[t].result.error.from = c
            /\ ~tasks[t].ran
            /\ tasks[t].incoming.id \notin DOMAIN seen_nonces[c]

\* how often x occurs in the sequence seq
Count(seq, x) == Cardinality({i \in DOMAIN seq : seq[i] = x})

\* the sequence long starts with the sequence short
StartsWith(long, short) ==
    Len(short) <= Len(long) /\ SubSeq(long, 1, Len(short)) = short

\* invocation t has passed the checks of route(): its signal is in the hands
\* of execute(), or the handler has run, or a request has been sent
InHand(t) ==
    \/ tasks[t].pc \notin {"check", "accept", "done"}
    \/ tasks[t].ran
    \/ tasks[t].sent > 0

\* C12: the signal an accepted invocation hands to the handler or forwards
\* has the cell's id in visited_cell_ids once more than the incoming signal
\* and the cell's address in visited_addrs, the incoming visited sets being
\* the unchanged beginning of the outgoing ones; a peer receives exactly
\* these sets
C12_VisitedOnceMore ==
    \A t \in TaskIds :
        LET c == tasks[t].cell
            in == tasks[t].incoming
            out == tasks[t].signal
            p == tasks[t].parent
        IN  /\ InHand(t) =>
                /\ Count(out.visited_cell_ids, c) = Count(in.visited_cell_ids, c) + 1
                /\ Len(out.visited_cell_ids) = Len(in.visited_cell_ids) + 1
                /\ StartsWith(out.visited_cell_ids, in.visited_cell_ids)
                /\ Contains(out.visited_addrs, ListenAddr(c))
                /\ StartsWith(out.visited_addrs, in.visited_addrs)
            /\ p # 0 =>
                /\ in.visited_cell_ids = tasks[p].signal.visited_cell_ids
                /\ in.visited_addrs = tasks[p].signal.visited_addrs

\* C12: a cell accepted a signal that had visited another cell and forwarded
\* it to a peer, whose handler ran on it
C12_Witness ==
    \E t, u \in TaskIds :
        /\ tasks[u].parent = t
        /\ tasks[t].incoming.visited_cell_ids # <<>>
        /\ tasks[t].sent > 0
        /\ tasks[u].ran

\* task t floods in this step
Floods(t) == tasks[t].pc = "flood" /\ tasks'[t].pc = "await_flood"

\* C33: a cell floods a signal only when its flood_attempted flag is false,
\* sets the flag before sending, and sends to at most two neighbours, none of
\* them the cell itself, visited, or a direct candidate; the flag stays set
\* in every copy, so a cell that receives a flooded copy, or a copy derived
\* from one, does not flood.
C33_FloodsOnce ==
    /\ [](\A t \in TaskIds :
             /\ tasks[t].incoming.flood_attempted
                   => tasks[t].signal.flood_attempted /\ tasks[t].pc # "await_flood"
             /\ (tasks[t].parent # 0 /\ tasks[tasks[t].parent].incoming.flood_attempted)
                   => tasks[t].incoming.flood_attempted)
    /\ [][\A t \in TaskIds :
             Floods(t)
                 => LET c == tasks[t].cell
                        sig == tasks[t].signal
                        calls == tasks'[t].calls
                    IN  /\ ~sig.flood_attempted
                        /\ tasks'[t].signal.flood_attempted
                        /\ Len(calls) <= MaxFlood
                        /\ \A k \in DOMAIN calls :
                              /\ calls[k].addr # ListenAddr(c)
                              /\ ~Contains(sig.visited_cell_ids, Resolve(calls[k].addr))
                              /\ ~\E i \in DOMAIN tasks[t].providers :
                                     tasks[t].providers[i].addr = calls[k].addr
                              /\ \A j \in DOMAIN calls : j # k => calls[j].addr # calls[k].addr
                              /\ calls[k].child # 0
                                    => tasks'[calls[k].child].incoming.flood_attempted]_vars

\* a cell was sent a flooded copy, found no handler and no candidate, and is
\* past the flood it has skipped
C33_Witness ==
    \E t \in TaskIds :
        /\ tasks[t].parent # 0
        /\ tasks[tasks[t].parent].pc = "await_flood"
        /\ Len(tasks[tasks[t].parent].calls) = MaxFlood
        /\ tasks[t].incoming.flood_attempted
        /\ tasks[t].pc = "seed"

(***************************************************************************)
(* Properties of the atlas and of the targets chosen from it.              *)
(***************************************************************************)
\* the entries forward_to_peer of cell c sends the accepted signal sig to:
\* the direct candidates and the neighbours of the flood
ForwardTargets(c, sig) ==
    ProviderSet(c, Stamp(sig, c, now)) \cup NeighborSet(c, Stamp(sig, c, now), <<>>)

\* forward_to_peer of cell c falls back to the seed with the accepted signal
SeedIsTarget(c, sig) ==
    seed[c] # NoAddr /\ ~Contains(Stamp(sig, c, now).visited_addrs, seed[c])

\* C11: whatever the merges have put into the atlas, every target
\* forward_to_peer chooses for an accepted signal - a direct candidate, a
\* neighbour of the flood, the seed - has an id other than the cell's id and
\* an address other than the cell's own address
C11_TargetsAreOthers ==
    \A c \in Hosts : \A sig \in ExtSignals :
        /\ \A e \in ForwardTargets(c, sig) : e.id # c /\ e.addr # ListenAddr(c)
        /\ SeedIsTarget(c, sig) => seed[c] # ListenAddr(c)

\* C11: the atlas of A holds A's own address under the key of another cell,
\* A's seed is A's own address, and forward_to_peer of A has a target
C11_Witness ==
    /\ \E k \in DOMAIN atlas["A"] : k # "A" /\ atlas["A"][k].addr = ListenAddr("A")
    /\ seed["A"] = ListenAddr("A")
    /\ \E sig \in ExtSignals : ForwardTargets("A", sig) # {}

\* the maps merge_atlas of cell c may be called with: the maps from outside
\* and the atlas of another cell as gossip and bootstrap carry it
Snapshots(c) == WireMaps(c) \cup {atlas[h] : h \in Hosts \ {c}}

\* C13: a gossip merge that meets a known entry whose last_seen is not older
\* than the incoming one keeps the known entry as it is and goes on: hearsay
\* installs an entry only under an unknown key or when it is strictly newer
C13_GossipKeepsFresher ==
    \A c \in Hosts : \A incoming \in Snapshots(c) :
        \A m \in MergeOutcomes(c, atlas[c], incoming, TRUE, now) :
            \A k \in (DOMAIN incoming \cap DOMAIN atlas[c]) \ {c} :
                atlas[c][k].last_seen >= incoming[k].last_seen
                    => /\ m.atlas[k] = atlas[c][k]
                       /\ m.end # "blocked"
                       /\ ~MergeInserts(atlas[c], k,
                                        MergePrepared(k, incoming[k], TRUE, now), TRUE)

\* C14: in a listening cell, for a snapshot S, merge_atlas(S, false) followed
\* by merge_atlas(S, true) comes back with the last_seen of every entry as the
\* first call set it
C14_DirectThenGossip ==
    \A c \in Hosts : \A S \in Snapshots(c) :
        \A m1 \in MergeOutcomes(c, atlas[c], S, FALSE, now) :
            Listening(c) /\ m1.end = "returned" =>
                \A m2 \in MergeOutcomes(c, m1.atlas, S, TRUE, now) :
                    /\ m2.end = "returned"
                    /\ \A k \in DOMAIN m1.atlas :
                          m2.atlas[k].last_seen = m1.atlas[k].last_seen

\* C15: whatever hop counts of 0..255 the merged entries carried, every entry
\* of every atlas has gossip_hop_count <= 3 and no merge has overflowed in
\* its arithmetic
C15_HopCountBounded ==
    \A c \in Cells :
        /\ \A k \in DOMAIN atlas[c] : atlas[c][k].gossip_hop_count <= MaxGossipHops
        /\ ~overflowed[c]

\* C16: in a cell whose listen() has returned, the caps of the self entry are
\* the names of the handlers registered at that moment, whether provide() was
\* called before listen() or after it
C16_SelfCapsAreHandlers ==
    \A c \in Hosts : Listening(c) => atlas[c][c].caps = handlers[c]

\* C17: once listen() has put the self entry into the atlas, no step removes
\* or changes it: not a merge_atlas, also of a map that has the cell's own id
\* as a key, not a cleanup pass and not a gossip round
C17_SelfEntryStays ==
    [][\A c \in Hosts :
          Listening(c) => /\ c \in DOMAIN atlas'[c]
                          /\ atlas'[c][c] = atlas[c][c]]_vars

\* C17: A has served the announcement of B and a gossip round of B, whose atlas
\* has an entry under A's id, and a cleanup pass of A has evicted B; the self
\* entry of A, older than the clock, is in place
C17_Witness ==
    /\ Listening("A")
    /\ atlas["A"]["A"].last_seen < now
    /\ bootstrap["B"] = "done"
    /\ "A" \in DOMAIN atlas["B"]
    /\ Cardinality(DOMAIN seen_nonces["A"]) >= 2
    /\ "B" \notin DOMAIN atlas["A"]

\* C18: an entry leaves an atlas only when it is not the self entry and its
\* last_seen lies more than atlas_ttl_ms before the clock; an entry seen within
\* atlas_ttl_ms is not evicted
C18_CleanupKeepsFresh ==
    [][\A c \in Hosts : \A k \in DOMAIN atlas[c] :
          k \notin DOMAIN atlas'[c]
              => k # c /\ atlas[c][k].last_seen + AtlasTtlMs < now]_vars

\* C19: when the bootstrap of B from its seed A completes, however long A has
\* been listening, the atlas of B has an entry for A
C19_BootstrapLearnsSeed ==
    [][bootstrap["B"] = "pending" /\ bootstrap'["B"] = "done"
          => "A" \in DOMAIN atlas'["B"]]_vars

\* C20: convergence in the steady state: while A and B are both listening, an
\* entry for B that the atlas of A has come to hold stays in the atlas of A
C20_KnownPeerStays ==
    [][Listening("A") /\ Listening("B") /\ "B" \in DOMAIN atlas["A"]
          => "B" \in DOMAIN atlas'["A"]]_vars

\* the step is a gossip round of cell c that cell h answered: h had not seen
\* the signal of the round and now holds its answer
GossipAnswered(c, h) ==
    /\ GossipId(c) \notin DOMAIN seen_nonces[h]
    /\ GossipId(c) \in DOMAIN result_cache'[h]

\* C21: gossip is push-pull: when the peer h has answered a gossip round of
\* cell c with its atlas, c has every entry of that answer that is not stale
C21_GossipPushPull ==
    [][\A c, h \in Hosts :
          c # h /\ GossipAnswered(c, h)
              => \A k \in DOMAIN atlas'[h] :
                    saturating_sub(now, atlas'[h][k].last_seen) <= AtlasTtlMs
                        => k \in DOMAIN atlas'[c]]_vars

\* C31: a direct merge, merge_atlas(incoming, false), comes back with every
\* incoming entry under another key than the cell's id installed with
\* gossip_hop_count = 0 and last_seen = now, also where the atlas held an
\* entry for the key (stale entries under unknown keys, which C32 is about,
\* left aside).
C31_DirectAlwaysWins ==
    \A c \in Hosts : \A incoming \in Snapshots(c) :
        \A m \in MergeOutcomes(c, atlas[c], incoming, FALSE, now) :
            \A k \in DOMAIN incoming \ {c} :
                ~MergeSkipsStale(atlas[c], k, incoming[k], now)
                    => /\ m.end = "returned"
                       /\ k \in DOMAIN m.atlas
                       /\ m.atlas[k].gossip_hop_count = 0
                       /\ m.atlas[k].last_seen = now
                       /\ m.atlas[k].addr = incoming[k].addr
                       /\ m.atlas[k].caps = incoming[k].caps

\* C32: merge_atlas drops an incoming entry exactly when it is stale and its
\* key is not in the atlas: the dropped entry leaves the atlas without the
\* key, and a stale entry under a key the atlas holds is merged, by a gossip
\* merge as by a direct one.
C32_DropsStaleUnknownOnly ==
    \A c \in Hosts : \A incoming \in Snapshots(c) : \A via_gossip \in BOOLEAN :
        \A m \in MergeOutcomes(c, atlas[c], incoming, via_gossip, now) :
            (Listening(c) /\ m.end # "panicked") =>
                \A k \in DOMAIN incoming \ {c} :
                    IF saturating_sub(now, incoming[k].last_seen) > AtlasTtlMs
                    THEN IF k \in DOMAIN atlas[c]
                         THEN /\ m.end = "returned"
                              /\ via_gossip
                                    => m.atlas[k] = MergePrepared(k, incoming[k], TRUE, now)
                         ELSE k \notin DOMAIN m.atlas
                    ELSE k \notin DOMAIN atlas[c] => k \in DOMAIN m.atlas

\* C34: the result cache holds successful results only, and after a
\* cleanup pass it holds no entry older than 10 s.
C34_CacheIsSwept ==
    [][\A c \in Cells :
          /\ \A k \in DOMAIN result_cache'[c] : result_cache'[c][k][1].ok
          /\ Cleanup(c)
                => \A k \in DOMAIN result_cache'[c] :
                      now - result_cache'[c][k][2] <= CacheRetainMs]_vars

(***************************************************************************)
(* One circuit breaker, called in sequence: the breaker that cell A keeps  *)
(* for the address of X, and the log of the calls made on it.              *)
(***************************************************************************)
\* the calls and waits of one run
MaxBreakerCalls == 6

\* the address the breaker under test guards
BreakerAddr == Addr("http", "X")

\* the waits between two calls: a moment, just short of recovery_ms, recovery_ms
BreakerWaits == {1, CircuitRecoveryMs - 1, CircuitRecoveryMs}

BreakerInit ==
    /\ now = 0
    /\ is_shutting_down = [c \in Cells |-> 0]
    /\ handlers = [c \in Cells |-> DefaultCaps]
    /\ atlas = [c \in Cells |-> EmptyMap]
    /\ seed = [c \in Cells |-> NoAddr]
    /\ circuits = [c \in Cells |->
                      IF c = "A" THEN Put(EmptyMap, BreakerAddr, NewCircuit) ELSE EmptyMap]
    /\ seen_nonces = [c \in Cells |-> EmptyMap]
    /\ active_executions = [c \in Cells |-> EmptyMap]
    /\ result_cache = [c \in Cells |-> EmptyMap]
    /\ metrics = [c \in Cells |-> [requests_total |-> 0, requests_success |-> 0,
                                   requests_failed |-> 0]]
    /\ tasks = <<>>
    /\ events = 0
    /\ overflowed = [c \in Cells |-> FALSE]
    /\ stuck = [c \in Cells |-> FALSE]
    /\ bootstrap = [c \in Cells |-> "done"]
    /\ shutdown_calls = [c \in Cells |-> NoShutdown]
    /\ breaker_log = <<>>
    /\ ask = NoAsk

\* a call of record_failure() on the breaker
BreakerFailure ==
    /\ Len(breaker_log) < MaxBreakerCalls
    /\ circuits' = [circuits EXCEPT !["A"][BreakerAddr] = record_failure(@, now)]
    /\ breaker_log' = Append(breaker_log, [op |-> "failure", at |-> now])
    /\ UNCHANGED <<now, is_shutting_down, handlers, atlas, seed, overflowed, stuck,
                   bootstrap, shutdown_calls, ask, seen_nonces, active_executions,
                   result_cache, metrics, tasks, events>>

\* a call of record_success() on the breaker
BreakerSuccess ==
    /\ Len(breaker_log) < MaxBreakerCalls
    /\ circuits' = [circuits EXCEPT !["A"][BreakerAddr] = record_success(@)]
    /\ breaker_log' = Append(breaker_log, [op |-> "success", at |-> now])
    /\ UNCHANGED <<now, is_shutting_down, handlers, atlas, seed, overflowed, stuck,
                   bootstrap, shutdown_calls, ask, seen_nonces, active_executions,
                   result_cache, metrics, tasks, events>>

\* time passes between two calls
BreakerWait(d) ==
    /\ Len(breaker_log) < MaxBreakerCalls
    /\ now' = now + d
    /\ breaker_log' = Append(breaker_log, [op |-> "wait", at |-> now])
    /\ UNCHANGED <<is_shutting_down, handlers, atlas, seed, overflowed, stuck,
                   bootstrap, shutdown_calls, ask, circuits, seen_nonces,
                   active_executions, result_cache, metrics, tasks, events>>

BreakerNext ==
    \/ BreakerFailure
    \/ BreakerSuccess
    \/ \E d \in BreakerWaits : BreakerWait(d)

BreakerSpec == BreakerInit /\ [][BreakerNext]_vars

(***************************************************************************)
(* Properties of the circuit breaker.                                      *)
(***************************************************************************)
\* the breaker under test
Breaker == circuits["A"][BreakerAddr]

\* the positions of the log that hold a call of the kind op
LogCalls(op) == {i \in DOMAIN breaker_log : breaker_log[i].op = op}

\* the position of the last record_success, 0 when there was none
LastSuccess == IF LogCalls("success") = {} THEN 0
               ELSE CHOOSE i \in LogCalls("success") : \A j \in LogCalls("success") : j <= i

\* the failures recorded since the last record_success
FailuresSinceSuccess == {i \in LogCalls("failure") : i > LastSuccess}

\* the time of the last record_failure
LastFailureAt ==
    breaker_log[CHOOSE i \in LogCalls("failure") : \A j \in LogCalls("failure") : j <= i].at

\* C22: after any sequence of record_failure and record_success calls the
\* breaker is open exactly when at least threshold failures were recorded
\* since the last record_success and less than recovery_ms has passed since
\* the last failure; after a record_success the count is 0 and it is closed.
C22_OpenAtThreshold ==
    /\ is_open(Breaker, now)
           <=> /\ Cardinality(FailuresSinceSuccess) >= CircuitThreshold
               /\ now - LastFailureAt < CircuitRecoveryMs
    /\ Breaker.failures = Cardinality(FailuresSinceSuccess)
    /\ (breaker_log # <<>> /\ breaker_log[Len(breaker_log)].op = "success")
           => Breaker.failures = 0 /\ ~is_open(Breaker, now)

\* the breaker is open right after the third failure in a row, and only two
\* had been recorded before
C22_Witness ==
    /\ Len(breaker_log) >= CircuitThreshold
    /\ breaker_log[Len(breaker_log)].op = "failure"
    /\ Cardinality(FailuresSinceSuccess) = CircuitThreshold
    /\ is_open(Breaker, now)

(***************************************************************************)
(* ask_mesh(): the client of cell A asks for TestCap.  Every attempt is a  *)
(* route() of a fresh signal on the cell; the tasks of an attempt are      *)
(* dropped when the next attempt starts.                                   *)
(***************************************************************************)
\* the calls of ask_mesh in one run
MaxAsks == 2

\* ask_mesh: with_deadline(10 s), max_wait 30 s, delay from 100 ms up to 5 s
AskDeadlineMs == 10000
AskMaxWaitMs == 30000
AskFirstDelayMs == 100
AskMaxDelayMs == 5000

\* Signal::new: a new Uuid, nothing visited, no deadline
SignalNew(id, cap) ==
    [id |-> id, capability |-> cap, trace |-> <<>>, steps |-> <<>>,
     visited_cell_ids |-> <<>>, visited_addrs |-> <<>>, hops |-> 0,
     flood_attempted |-> FALSE, deadline_ms |-> NoDeadline]

\* Signal::with_deadline at wall-clock time t
with_deadline(sig, t, duration) == [sig EXCEPT !.deadline_ms = t + duration]

\* Uuid::new_v4() of the n-th signal that ask_mesh builds
AskId(n) == 200 + n

\* a variant of ask_mesh that tries again after every failure
AskRetriesOnFailure(r) == ~r.ok

\* ask_mesh goes on to another attempt: the result is neither ok nor a failure
\* with a code other than NotFound
AskRetries(r) == ~r.ok /\ (r.error = NoError \/ r.error.code = "NOT_FOUND")

\* start.elapsed() >= max_wait
AskGivesUp(start, t) == saturating_sub(t, start) >= AskMaxWaitMs

\* a variant that doubles the delay without the cap
NextDelayUncapped(delay) == delay * 2

\* delay = min(delay * 2, 5 s)
NextDelay(delay) == Min(delay * 2, AskMaxDelayMs)

\* the requests the tasks of the attempt put on the network
RECURSIVE SentBy(_, _)
SentBy(tk, k) == IF k > Len(tk) THEN 0 ELSE tk[k].sent + SentBy(tk, k + 1)

\* the mesh of the asking cell A: the provider of TestCap is A itself, the
\* cell P, the peer X whose address nothing listens at, or nobody; A knows
\* the provider, and knows B or not; its seed is B, the address of X, or none
AskInit ==
    /\ now = 0
    /\ is_shutting_down = [c \in Cells |-> 0]
    /\ \E prov \in {{}, {"A"}, {"P"}, {"X"}}, known \in {{}, {"B"}} :
         /\ handlers = [c \in Cells |->
                           DefaultCaps \cup (IF c \in prov THEN {TestCap} ELSE {})]
         /\ atlas = [c \in Cells |->
                        IF c = "A"
                        THEN [x \in {"A"} \cup known \cup prov |->
                                 Entry(x, DefaultCaps \cup
                                          (IF x \in prov THEN {TestCap} ELSE {}))]
                        ELSE AtlasOf(c, {}, {})]
    /\ \E sd \in {NoAddr, ListenAddr("B"), ListenAddr("X")} :
         seed = [c \in Cells |-> IF c = "A" THEN sd ELSE NoAddr]
    /\ circuits = [c \in Cells |-> EmptyMap]
    /\ seen_nonces = [c \in Cells |-> EmptyMap]
    /\ active_executions = [c \in Cells |-> EmptyMap]
    /\ result_cache = [c \in Cells |-> EmptyMap]
    /\ metrics = [c \in Cells |-> [requests_total |-> 0, requests_success |-> 0,
                                   requests_failed |-> 0]]
    /\ tasks = <<>>
    /\ events = 0
    /\ overflowed = [c \in Cells |-> FALSE]
    /\ stuck = [c \in Cells |-> FALSE]
    /\ bootstrap = [c \in Cells |-> "done"]
    /\ shutdown_calls = [c \in Cells |-> NoShutdown]
    /\ breaker_log = <<>>
    /\ ask = [pc |-> "idle", asks |-> 0, signals |-> 0]

\* the attempt of ask_mesh that starts at time t: route() of a fresh signal
AskAttempt(c, n, t) == NewTask(c, 0, with_deadline(SignalNew(AskId(n), TestCap), t,
                                                   AskDeadlineMs))

askFrame == <<is_shutting_down, handlers, atlas, seed, overflowed, stuck, bootstrap,
              shutdown_calls, breaker_log, circuits, seen_nonces, active_executions,
              result_cache, metrics, events>>

\* ask_mesh() is called: the first attempt
AskMesh(c) ==
    /\ ask.pc \in {"idle", "done"}
    /\ ask.asks < MaxAsks
    /\ ask' = [pc |-> "routing", cell |-> c, asks |-> ask.asks + 1,
               signals |-> ask.signals + 1, start |-> now, delay |-> AskFirstDelayMs,
               attempts |-> 1, sent |-> 0, deadline_ms |-> now + AskDeadlineMs,
               circuits_at_start |-> circuits[c], last |-> NoResult, result |-> NoResult]
    /\ tasks' = <<AskAttempt(c, ask.signals + 1, now)>>
    /\ UNCHANGED <<now, askFrame>>

\* route() returned a result that ends ask_mesh: a success, a failure with
\* another code than NotFound, or NotFound once max_wait has elapsed
AskReturn ==
    /\ ask.pc = "routing"
    /\ tasks[1].pc = "done"
    /\ ~AskRetries(tasks[1].result) \/ AskGivesUp(ask.start, now)
    /\ ask' = [ask EXCEPT !.pc = "done", !.result = tasks[1].result,
                          !.last = tasks[1].result, !.sent = @ + SentBy(tasks, 1)]
    /\ tasks' = <<>>
    /\ UNCHANGED <<now, askFrame>>

\* route() returned NotFound before max_wait: sleep(delay), double the delay,
\* and route a new signal (the merge_atlas of an empty map that follows a
\* delay of whole seconds changes nothing)
AskAgain ==
    /\ ask.pc = "routing"
    /\ tasks[1].pc = "done"
    /\ AskRetries(tasks[1].result)
    /\ ~AskGivesUp(ask.start, now)
    /\ now' = now + ask.delay
    /\ ask' = [ask EXCEPT !.delay = NextDelay(@), !.attempts = @ + 1,
                          !.signals = @ + 1, !.last = tasks[1].result,
                          !.sent = @ + SentBy(tasks, 1),
                          !.deadline_ms = now' + AskDeadlineMs]
    /\ tasks' = <<AskAttempt(ask.cell, ask.signals + 1, now')>>
    /\ UNCHANGED askFrame

AskNext ==
    \/ AskMesh("A")
    \/ AskReturn
    \/ AskAgain
    \/ \E t \in TaskIds : RouteCheck(t)
    \/ \E t \in TaskIds : RouteAccept(t)
    \/ \E t \in TaskIds : ExecuteLocal(t)
    \/ \E t \in TaskIds : ExecuteForward(t)
    \/ \E t \in TaskIds : DirectTry(t)
    \/ \E t \in TaskIds : DirectReturn(t)
    \/ \E t \in TaskIds : Flood(t)
    \/ \E t \in TaskIds : FloodJoin(t)
    \/ \E t \in TaskIds : SeedTry(t)
    \/ \E t \in TaskIds : SeedReturn(t)
    \/ \E t \in TaskIds : Publish(t)

AskSpec == AskInit /\ [][AskNext]_vars

(***************************************************************************)
(* Properties of the breakers in routing and of ask_mesh.                  *)
(***************************************************************************)
\* the failures the breaker of addr counts, 0 when there is no breaker yet
FailuresOf(circ, addr) == IF addr \in DOMAIN circ THEN circ[addr].failures ELSE 0

\* the step is the failure of the direct try that task t was making
DirectTryFails(t) ==
    /\ tasks[t].pc \in {"direct", "await_direct"}
    /\ t \in DOMAIN tasks'
    /\ tasks'[t].idx = tasks[t].idx + 1

\* C23: each failed direct RPC of forward_to_peer, other than LoopDetected,
\* adds exactly one failure to the breaker of the peer's address.
C23_OneFailurePerRpc ==
    [][\A t \in TaskIds :
          DirectTryFails(t)
              => LET c == tasks[t].cell
                     addr == tasks[t].providers[tasks[t].idx].addr
                 IN  FailuresOf(circuits'[c], addr) = FailuresOf(circuits[c], addr) + 1]_vars

\* C35: a call that rpc() turns away with CircuitOpen leaves the failure
\* count and the last-failure time of that breaker as they are.
C35_RejectionLeavesBreaker ==
    [][\A t \in TaskIds :
          (tasks[t].pc = "direct" /\ DirectTryFails(t))
              => LET c == tasks[t].cell
                     addr == tasks[t].providers[tasks[t].idx].addr
                 IN  CircuitOpen(c, addr) => circuits'[c][addr] = circuits[c][addr]]_vars

\* the cell has no seed and its atlas holds, besides itself, the single
\* provider X of TestCap, whose address nothing listens at
LoneUnreachableProvider(c) ==
    /\ seed[c] = NoAddr
    /\ DOMAIN atlas[c] = {c, "X"}
    /\ TestCap \in atlas[c]["X"].caps
    /\ Resolve(atlas[c]["X"].addr) = None

\* the breaker of addr was open when the ask_mesh call started
OpenAtStart(addr) ==
    /\ addr \in DOMAIN ask.circuits_at_start
    /\ is_open(ask.circuits_at_start[addr], ask.start)

\* C24: on a cell with no seed and a single unreachable provider, an
\* ask_mesh called while the provider's breaker is open fails with
\* CircuitOpen and puts no request on the network.
C24_OpenBreakerAnswers ==
    (/\ ask.pc = "done"
     /\ LoneUnreachableProvider(ask.cell)
     /\ OpenAtStart(ListenAddr("X")))
        => /\ ~ask.result.ok
           /\ ask.result.error.code = "CIRCUIT_OPEN"
           /\ ask.sent = 0

(***************************************************************************)
(* The outbound requests of a cell whose bootstrap is still under way: A   *)
(* has B as its seed and has heard, through the gossip of others, that B   *)
(* provides TestCap; B has heard of A or not; the client of A asks for     *)
(* TestCap while bootstrap_from_seed is between two of its attempts.       *)
(***************************************************************************)
OutboundInit ==
    /\ now = 0
    /\ is_shutting_down = [c \in Cells |-> 0]
    /\ handlers = [c \in Cells |-> DefaultCaps \cup (IF c = "B" THEN {TestCap} ELSE {})]
    /\ \E known \in {{}, {"A"}} :
         atlas = [c \in Cells |->
                     IF c = "A"
                     THEN [x \in {"A", "B"} |->
                              Entry(x, DefaultCaps \cup (IF x = "B" THEN {TestCap} ELSE {}))]
                     ELSE AtlasOf(c, IF c = "B" THEN known ELSE {}, {"B"})]
    /\ \E sd \in {NoAddr, ListenAddr("B")} :
         /\ seed = [c \in Cells |-> IF c = "A" THEN sd ELSE NoAddr]
         /\ bootstrap = [c \in Cells |->
                            IF c = "A" /\ sd # NoAddr THEN "pending" ELSE "done"]
    /\ circuits = [c \in Cells |-> EmptyMap]
    /\ seen_nonces = [c \in Cells |-> EmptyMap]
    /\ active_executions = [c \in Cells |-> EmptyMap]
    /\ result_cache = [c \in Cells |-> EmptyMap]
    /\ metrics = [c \in Cells |-> [requests_total |-> 0, requests_success |-> 0,
                                   requests_failed |-> 0]]
    /\ tasks = <<>>
    /\ events = 0
    /\ overflowed = [c \in Cells |-> FALSE]
    /\ stuck = [c \in Cells |-> FALSE]
    /\ shutdown_calls = [c \in Cells |-> NoShutdown]
    /\ breaker_log = <<>>
    /\ ask = [pc |-> "idle", asks |-> 0, signals |-> 0]

OutboundNext ==
    \/ AskMesh("A")
    \/ AskReturn
    \/ AskAgain
    \/ Bootstrap("A")
    \/ BootstrapGiveUp("A")
    \/ \E t \in TaskIds : RouteCheck(t)
    \/ \E t \in TaskIds : RouteAccept(t)
    \/ \E t \in TaskIds : ExecuteLocal(t)
    \/ \E t \in TaskIds : ExecuteForward(t)
    \/ \E t \in TaskIds : DirectTry(t)
    \/ \E t \in TaskIds : DirectReturn(t)
    \/ \E t \in TaskIds : Flood(t)
    \/ \E t \in TaskIds : FloodJoin(t)
    \/ \E t \in TaskIds : SeedTry(t)
    \/ \E t \in TaskIds : SeedReturn(t)
    \/ \E t \in TaskIds : Publish(t)

OutboundSpec == OutboundInit /\ [][OutboundNext]_vars

\* the step puts the bootstrap request of c on the network: its seed serves it
BootstrapSent(c) ==
    /\ Resolve(seed[c]) # None
    /\ BootstrapId(c) \notin DOMAIN seen_nonces[Resolve(seed[c])]
    /\ BootstrapId(c) \in DOMAIN seen_nonces'[Resolve(seed[c])]

\* C25: no outbound request goes to an address whose breaker is open; the
\* request of bootstrap_from_seed is one of them.
C25_NoRequestPastOpenBreaker ==
    [][\A c \in Cells : BootstrapSent(c) => ~CircuitOpen(c, seed[c])]_vars

\* route() failed with NotFound
IsNotFound(r) == ~r.ok /\ r.error.code = "NOT_FOUND"

\* the step starts an attempt of ask_mesh: a new signal is routed
AttemptStarts == ask'.pc = "routing" /\ ask'.signals # ask.signals

\* C26: ask_mesh starts another attempt only after an attempt failed with
\* NotFound, and returns a success or a failure with another code as soon as
\* route() hands it back; every attempt routes a signal with an id that no
\* cell has seen and a deadline 10 s ahead.
C26_RetryOnlyOnNotFound ==
    [][/\ AttemptStarts
            => /\ ask.pc = "routing" => IsNotFound(tasks[1].result)
               /\ \A h \in Cells : tasks'[1].signal.id \notin DOMAIN seen_nonces[h]
               /\ tasks'[1].signal.deadline_ms = now' + AskDeadlineMs
       /\ (/\ ask.pc = "routing"
           /\ tasks[1].pc = "done"
           /\ ~IsNotFound(tasks[1].result)
           /\ ask' # ask)
            => ask'.pc = "done" /\ ask'.result = tasks[1].result]_vars

\* ask_mesh returned the success of its second attempt, the first having
\* failed with NotFound
C26_Witness ==
    /\ ask.pc = "done"
    /\ ask.attempts = 2
    /\ ask.result.ok
    /\ ask.result.cid = AskId(ask.signals)

\* ask_mesh runs on the tokio runtime: a task that can take a step takes it
AskLiveSpec == AskSpec /\ WF_vars(AskNext)

\* C27: ask_mesh terminates: the delay starts at 100 ms, doubles after each
\* NotFound and never exceeds 5 s; a NotFound that comes back once 30 s have
\* passed since the call began is returned; every call returns.
C27_AskMeshTerminates ==
    /\ [](ask.pc = "routing"
             => /\ ask.delay <= AskMaxDelayMs
                /\ ask.attempts = 1 => ask.delay = AskFirstDelayMs)
    /\ [][/\ (ask.pc = "routing" /\ ask'.pc = "routing" /\ ask'.attempts # ask.attempts)
               => /\ ask'.attempts = ask.attempts + 1
                  /\ ask'.delay = IF ask.delay * 2 < AskMaxDelayMs
                                  THEN ask.delay * 2 ELSE AskMaxDelayMs
                  /\ now' = now + ask.delay
                  /\ now - ask.start < AskMaxWaitMs
          /\ (/\ ask.pc = "routing"
              /\ tasks[1].pc = "done"
              /\ IsNotFound(tasks[1].result)
              /\ now - ask.start >= AskMaxWaitMs
              /\ ask' # ask)
               => ask'.pc = "done" /\ ask'.result = tasks[1].result]_vars
    /\ (ask.pc = "routing") ~> (ask.pc = "done")

\* ask_mesh gave up: it returned NotFound after 30 s, the delay at its cap
C27_Witness ==
    /\ ask.pc = "done"
    /\ IsNotFound(ask.result)
    /\ now - ask.start >= AskMaxWaitMs
    /\ ask.delay = AskMaxDelayMs
    /\ ask.attempts > 1

(***************************************************************************)
(* ask_all(): the client of cell A asks every provider of TestCap at once. *)
(* A call of rpc() ends in one of four ways: the breaker of the address is *)
(* open, the connection is refused, the request is served by the cell that *)
(* listens at the address, or nothing comes back.                          *)
(***************************************************************************)
\* CellConfig::default: rpc_timeout_ms, the timeout of the reqwest client
RpcTimeoutMs == 5000

\* the timeout_ms a caller passes: below and above rpc_timeout_ms
AskAllTimeouts == {1000, 10000}

\* a breaker that two failed direct tries have left open at time 0
OpenCircuit == [failures |-> CircuitThreshold, last_failure |-> 0]

\* the atlas entries whose caps contain the capability
AllProviders(c, cap) == {e \in {atlas[c][k] : k \in DOMAIN atlas[c]} : cap \in e.caps}

\* the ways the rpc() to a provider can end; the request to an address that
\* is no http URL fails before anything is connected
RpcEnds(c, e) ==
    IF CircuitOpen(c, e.addr) THEN {"open"}
    ELSE IF IsClientAddr(e.addr) THEN {"invalid"}
    ELSE IF Resolve(e.addr) = None THEN {"refused", "silent"}
    ELSE {"served", "silent"}

\* MulticastItem
Item(cell_id, value, latency_ms, error) ==
    [cell_id |-> cell_id, result |-> value, latency_ms |-> latency_ms, error |-> error]

\* provider.id.unwrap_or("unknown")
ItemCellId(e) == IF e.id = None THEN "unknown" ELSE e.id

\* the item of a call of which rpc() returned r after latency_ms, within
\* timeout_ms
AnsweredItem(e, r, latency_ms) ==
    IF r.ok THEN Item(ItemCellId(e), r.value, latency_ms, NoError)
    ELSE Item(ItemCellId(e), NoValue, latency_ms, r.error)

\* the items of a call of which nothing comes back: timeout() gives up after
\* timeout_ms, unless the client of rpc_raw gave up before it
SilentItems(e, sig, timeout_ms) ==
    (IF timeout_ms <= RpcTimeoutMs
     THEN {Item(ItemCellId(e), NoValue, timeout_ms,
                MeshErrorNew("TIMEOUT", "Multicast timeout", ItemCellId(e)))}
     ELSE {})
    \cup
    (IF RpcTimeoutMs <= timeout_ms
     THEN {AnsweredItem(e, TransportFailure(sig, e.addr, "RPC_TIMEOUT"), RpcTimeoutMs)}
     ELSE {})

\* the entry of a client-only cell: its address is a client:// marker
ClientEntry(x, caps) == AtlasEntryNew(x, Addr("client", x), caps, 0)

\* the mesh of the asking cell: any of A itself, P, the unreachable X and the
\* client-only K provide TestCap and are in A's atlas; A may hold an open
\* breaker for X
AllInit ==
    /\ now = 0
    /\ is_shutting_down = [c \in Cells |-> 0]
    /\ \E prov \in SUBSET {"A", "P", "X", "K"} :
         /\ handlers = [c \in Cells |->
                           DefaultCaps \cup (IF c \in prov THEN {TestCap} ELSE {})]
         /\ atlas = [c \in Cells |->
                        IF c = "A"
                        THEN [x \in {"A", "B"} \cup prov |->
                                 IF x = "K" THEN ClientEntry(x, {TestCap})
                                 ELSE Entry(x, DefaultCaps \cup
                                               (IF x \in prov THEN {TestCap} ELSE {}))]
                        ELSE AtlasOf(c, {}, prov)]
    /\ seed = [c \in Cells |-> NoAddr]
    /\ circuits \in {[c \in Cells |-> EmptyMap],
                     [c \in Cells |-> IF c = "A"
                                      THEN Put(EmptyMap, ListenAddr("X"), OpenCircuit)
                                      ELSE EmptyMap]}
    /\ seen_nonces = [c \in Cells |-> EmptyMap]
    /\ active_executions = [c \in Cells |-> EmptyMap]
    /\ result_cache = [c \in Cells |-> EmptyMap]
    /\ metrics = [c \in Cells |-> [requests_total |-> 0, requests_success |-> 0,
                                   requests_failed |-> 0]]
    /\ tasks = <<>>
    /\ events = 0
    /\ overflowed = [c \in Cells |-> FALSE]
    /\ stuck = [c \in Cells |-> FALSE]
    /\ bootstrap = [c \in Cells |-> "done"]
    /\ shutdown_calls = [c \in Cells |-> NoShutdown]
    /\ breaker_log = <<>>
    /\ ask = NoAsk

\* the signal of the k-th call of ask_all
AllSignal(k) == SignalNew(AskId(k), TestCap)

\* the tasks that serve the calls, in the order of the calls
RECURSIVE Served(_, _, _)
Served(provs, ends, k) ==
    IF k > Len(provs) THEN <<>>
    ELSE (IF ends[k] = "served"
          THEN <<NewTask(Resolve(provs[k].addr), 0, AllSignal(k))>>
          ELSE <<>>)
         \o Served(provs, ends, k + 1)

\* ask_all() is called: the providers are collected and every one is sent
\* its own signal through rpc()
AskAll(c, timeout_ms) ==
    /\ ask.pc = "idle"
    /\ \E provs \in Orders(AllProviders(c, TestCap)) :
         \E ends \in [DOMAIN provs -> {"open", "invalid", "refused", "served",
                                       "silent"}] :
            /\ \A k \in DOMAIN provs : ends[k] \in RpcEnds(c, provs[k])
            /\ ask' = [pc |-> "multicast", cell |-> c, timeout_ms |-> timeout_ms,
                       providers |-> provs, ends |-> ends,
                       child |-> [k \in DOMAIN provs |->
                                     Cardinality({j \in 1..k : ends[j] = "served"})],
                       results |-> <<>>, failures |-> <<>>]
            /\ tasks' = Served(provs, ends, 1)
    /\ UNCHANGED <<now, askFrame>>

\* the result rpc() returned for the k-th call, when something came back
AllResult(k) ==
    LET e == ask.providers[k]
    IN  IF ask.ends[k] = "open" THEN CircuitOpenResult(AllSignal(k), e.addr)
        ELSE IF ask.ends[k] = "invalid"
        THEN TransportFailure(AllSignal(k), e.addr, "RPC_FAIL")
        ELSE IF ask.ends[k] = "refused"
        THEN TransportFailure(AllSignal(k), e.addr, "RPC_UNREACHABLE")
        ELSE tasks[ask.child[k]].result

\* the items with, and without, an error, in the order of the calls
RECURSIVE Keep(_, _, _)
Keep(items, failed, k) ==
    IF k > Len(items) THEN <<>>
    ELSE (IF (items[k].error # NoError) = failed THEN <<items[k]>> ELSE <<>>)
         \o Keep(items, failed, k + 1)

\* rpc() of every call that reached rpc_raw and came back records its outcome
RECURSIVE AllRecord(_, _, _, _)
AllRecord(circ, items, k, t) ==
    IF k > Len(items) THEN circ
    ELSE AllRecord(IF ask.ends[k] = "open" \/ items[k].error.code = "TIMEOUT" THEN circ
                   ELSE RpcRecord(circ, ask.providers[k].addr,
                                  [ok |-> items[k].error = NoError], t),
                   items, k + 1, t)

\* join_all has every item: the answers, and the items of the silent calls
AskAllJoin ==
    LET c == ask.cell
        silent == {k \in DOMAIN ask.providers : ask.ends[k] = "silent"}
        waited == IF silent = {} THEN 0 ELSE Min(ask.timeout_ms, RpcTimeoutMs)
    IN  /\ ask.pc = "multicast"
        /\ \A t \in TaskIds : tasks[t].pc = "done"
        /\ \E items \in [DOMAIN ask.providers -> UNION
                            {IF k \in silent
                             THEN SilentItems(ask.providers[k], AllSignal(k), ask.timeout_ms)
                             ELSE {AnsweredItem(ask.providers[k], AllResult(k), 0)} :
                               k \in DOMAIN ask.providers}] :
             /\ \A k \in DOMAIN ask.providers :
                  items[k] \in IF k \in silent
                               THEN SilentItems(ask.providers[k], AllSignal(k),
                                                ask.timeout_ms)
                               ELSE {AnsweredItem(ask.providers[k], AllResult(k), 0)}
             /\ ask' = [ask EXCEPT !.pc = "done", !.results = Keep(items, FALSE, 1),
                                   !.failures = Keep(items, TRUE, 1)]
             /\ circuits' = [circuits EXCEPT ![c] = AllRecord(@, items, 1, now + waited)]
        /\ now' = now + waited
        /\ tasks' = <<>>
        /\ UNCHANGED <<is_shutting_down, handlers, atlas, seed, overflowed, stuck,
                       bootstrap, shutdown_calls, breaker_log, seen_nonces,
                       active_executions, result_cache, metrics, events>>

AllNext ==
    \/ \E timeout_ms \in AskAllTimeouts : AskAll("A", timeout_ms)
    \/ AskAllJoin
    \/ \E t \in TaskIds : RouteCheck(t)
    \/ \E t \in TaskIds : RouteAccept(t)
    \/ \E t \in TaskIds : ExecuteLocal(t)
    \/ \E t \in TaskIds : Publish(t)

AllSpec == AllInit /\ [][AllNext]_vars

(***************************************************************************)
(* Properties of ask_all.                                                  *)
(***************************************************************************)
\* the items ask_all returned, results first
AllItems == ask.results \o ask.failures

\* C28: ask_all returns one item for every atlas entry that advertises the
\* capability, each either in results (no error) or in failures (an error),
\* and the item of a provider from which nothing came back within
\* timeout_ms is a Timeout item; without providers both lists are empty.
C28_OneItemPerProvider ==
    ask.pc = "done"
        => /\ Len(AllItems) = Cardinality(AllProviders(ask.cell, TestCap))
           /\ \A e \in AllProviders(ask.cell, TestCap) :
                 Cardinality({i \in DOMAIN AllItems : AllItems[i].cell_id = e.id}) = 1
           /\ \A i \in DOMAIN ask.results : ask.results[i].error = NoError
           /\ \A i \in DOMAIN ask.failures : ask.failures[i].error # NoError
           /\ \A k \in DOMAIN ask.providers :
                 ask.ends[k] = "silent"
                     => \E i \in DOMAIN ask.failures :
                           /\ ask.failures[i].cell_id = ask.providers[k].id
                           /\ ask.failures[i].error.code = "TIMEOUT"

\* the calls of ask_all that reached rpc_raw: their breaker was not open
AllSent == {k \in DOMAIN ask.providers : ask.ends[k] # "open"}

\* C36: no outbound RPC is sent to an atlas entry whose address starts with
\* client://: the providers ask_all sends its signal to exclude such
\* entries, as the direct candidates and the gossip targets do.
C36_NoRpcToClientAddr ==
    ask.pc \in {"multicast", "done"}
        => \A k \in AllSent : ~IsClientAddr(ask.providers[k].addr)

(***************************************************************************)
(* The lifecycle flag: shutdown() called through the API, and spawned by   *)
(* the cell/shutdown handler, any number of times and at any moment.       *)
(***************************************************************************)
\* the shutdown() calls and cell/shutdown requests per cell in one run
MaxShutdownCalls == 3

\* Uuid::new_v4() of the n-th cell/shutdown signal a client sends to cell c
ShutdownId(c, n) == 300 + 10 * n + CellNo(c)

LifeInit ==
    /\ now = 0
    /\ is_shutting_down = [c \in Cells |-> 0]
    /\ handlers = [c \in Cells |-> DefaultCaps]
    /\ atlas = [c \in Cells |-> AtlasOf(c, {}, {})]
    /\ seed = [c \in Cells |-> NoAddr]
    /\ circuits = [c \in Cells |-> EmptyMap]
    /\ seen_nonces = [c \in Cells |-> EmptyMap]
    /\ active_executions = [c \in Cells |-> EmptyMap]
    /\ result_cache = [c \in Cells |-> EmptyMap]
    /\ metrics = [c \in Cells |-> [requests_total |-> 0, requests_success |-> 0,
                                   requests_failed |-> 0]]
    /\ tasks = <<>>
    /\ events = 0
    /\ overflowed = [c \in Cells |-> FALSE]
    /\ stuck = [c \in Cells |-> FALSE]
    /\ bootstrap = [c \in Cells |-> "done"]
    /\ shutdown_calls = [c \in Cells |-> NoShutdown]
    /\ breaker_log = <<>>
    /\ ask = NoAsk

\* the calls of c that were made or are waiting to be made
CallsOf(c) == shutdown_calls[c].made + shutdown_calls[c].waiting

\* the owner of the cell calls shutdown()
ShutdownCall(c) ==
    /\ CallsOf(c) < MaxShutdownCalls
    /\ ShutdownSwap(c)
    /\ UNCHANGED <<now, handlers, atlas, seed, overflowed, stuck, bootstrap, circuits,
                   seen_nonces, active_executions, result_cache, metrics, tasks, events,
                   breaker_log, ask>>

\* route() of a cell/shutdown signal on a cell that is up: the handler spawns
\* a task that will call shutdown() and answers "shutting_down"; route()
\* notes the nonce, caches the success and counts the request
ShutdownRequest(c) ==
    LET id == ShutdownId(c, CallsOf(c))
    IN  /\ CallsOf(c) < MaxShutdownCalls
        /\ ~ShuttingDown(c)
        /\ "cell/shutdown" \in handlers[c]
        /\ shutdown_calls' = [shutdown_calls EXCEPT ![c].waiting = @ + 1]
        /\ seen_nonces' = [seen_nonces EXCEPT ![c] = Put(@, id, now)]
        /\ result_cache' = [result_cache EXCEPT
              ![c] = Put(@, id, <<Success(id, [tag |-> "shutting_down", by |-> c,
                                               cap |-> "cell/shutdown"]), now>>)]
        /\ metrics' = [metrics EXCEPT ![c].requests_total = @ + 1,
                                      ![c].requests_success = @ + 1]
        /\ UNCHANGED <<now, is_shutting_down, handlers, atlas, seed, overflowed, stuck,
                       bootstrap, circuits, active_executions, tasks, events,
                       breaker_log, ask>>

\* the task the handler spawned has slept and calls shutdown()
ShutdownSpawned(c) ==
    /\ shutdown_calls[c].waiting > 0
    /\ is_shutting_down' = [is_shutting_down EXCEPT ![c] = 1]
    /\ shutdown_calls' = [shutdown_calls EXCEPT
                             ![c].waiting = @ - 1,
                             ![c].made = @ + 1,
                             ![c].running = @ \/ is_shutting_down[c] = 0,
                             ![c].began = IF is_shutting_down[c] = 0 THEN now ELSE @]
    /\ UNCHANGED <<now, handlers, atlas, seed, overflowed, stuck, bootstrap, circuits,
                   seen_nonces, active_executions, result_cache, metrics, tasks, events,
                   breaker_log, ask>>

LifeNext ==
    \/ \E c \in Cells : ShutdownCall(c)
    \/ \E c \in Cells : ShutdownRequest(c)
    \/ \E c \in Cells : ShutdownSpawned(c)
    \/ \E c \in Cells : ShutdownEnd(c)

LifeSpec == LifeInit /\ [][LifeNext]_vars

\* C29: over any sequence of shutdown() calls the lifecycle flag of a cell
\* never decreases and stays 2 once shutdown has completed; a call that
\* finds the flag set leaves it as it is.
C29_FlagOnlyRises ==
    [][\A c \in Cells :
          /\ is_shutting_down'[c] >= is_shutting_down[c]
          /\ is_shutting_down[c] = 2 => is_shutting_down'[c] = 2]_vars

(***************************************************************************)
(* Properties of the loop check of route().                                *)
(***************************************************************************)
\* task t ended in the loop check of its own cell
LoopCheckFailed(t) ==
    /\ tasks[t].pc = "done"
    /\ IsLoopDetected(tasks[t].result)
    /\ tasks[t].result.error.from = tasks[t].cell
    /\ Contains(tasks[t].incoming.visited_cell_ids, tasks[t].cell)

\* C30: every LoopDetected failure of route() carries the trace of the
\* signal and a history that is not empty, also for a signal that arrives
\* with nothing but the cell's id in visited_cell_ids.
C30_LoopFailureHasHistory ==
    \A t \in TaskIds :
        LoopCheckFailed(t)
            => /\ tasks[t].result.error.trace = tasks[t].incoming.trace
               /\ tasks[t].result.error.history # <<>>

(***************************************************************************)
(* Termination of route().                                                 *)
(***************************************************************************)
\* the invocations of route() that a step starts on cell h: route() notes
\* the id of every signal it does not turn away
RouteStarts(h) == DOMAIN seen_nonces'[h] \ DOMAIN seen_nonces[h]

\* C37: every route() call returns a TraceResult: the call that a cell
\* accepts for a mesh/gossip signal comes back with the answer of the
\* handler, a success, which route() puts in the result cache on its way out.
C37_RouteReturns ==
    [][\A h \in Cells : \A id \in RouteStarts(h) : id \in DOMAIN result_cache'[h]]_vars

(***************************************************************************)
(* shutdown() and the supervised task list of cell A: listen() pushes the  *)
(* handles of the gossip loop, the cleanup loop and the server under the   *)
(* mutex of the list and spawns the bootstrap; shutdown() takes the mutex  *)
(* and awaits each handle with a timeout.                                  *)
(***************************************************************************)
\* the handles listen() pushes: gossip loop, cleanup loop, server
SupervisedTasks == 3

\* timeout(Duration::from_secs(5), task)
JoinTimeoutMs == 5000

\* a wait of a task that ends in time
JoinPromptMs == 2000

\* a supervised task when its handle is awaited: it has ended, it ends at its
\* next tick or when its connections close, or it never ends
TaskKinds == {"ended", "late", "hung"}

\* an await of the handle that has no timeout
JoinOutcomesUntimed(kind) ==
    IF kind = "ended" THEN {[ok |-> TRUE, waited |-> 0]}
    ELSE IF kind = "late" THEN {[ok |-> TRUE, waited |-> JoinPromptMs],
                                [ok |-> TRUE, waited |-> 3 * JoinTimeoutMs]}
    ELSE {}

\* timeout(5 s, task).await: Ok when the task ends within the timeout, Err
\* when the timeout elapses first
JoinOutcomes(kind) ==
    IF kind = "ended" THEN {[ok |-> TRUE, waited |-> 0]}
    ELSE IF kind = "late" THEN {[ok |-> TRUE, waited |-> JoinPromptMs],
                                [ok |-> FALSE, waited |-> JoinTimeoutMs]}
    ELSE {[ok |-> FALSE, waited |-> JoinTimeoutMs]}

\* listen() of A has pushed the handles of its two loops, and perhaps that
\* of the server; it has spawned the bootstrap from its seed B, which has
\* not yet made an attempt; B may know A already
DrainInit ==
    /\ now = 0
    /\ is_shutting_down = [c \in Cells |-> 0]
    /\ handlers = [c \in Cells |-> DefaultCaps]
    /\ \E known \in {{}, {"A"}} :
         atlas = [c \in Cells |-> AtlasOf(c, IF c = "B" THEN known ELSE {}, {})]
    /\ seed = [c \in Cells |-> IF c = "A" THEN ListenAddr("B") ELSE NoAddr]
    /\ circuits = [c \in Cells |-> EmptyMap]
    /\ seen_nonces = [c \in Cells |-> EmptyMap]
    /\ active_executions = [c \in Cells |-> EmptyMap]
    /\ result_cache = [c \in Cells |-> EmptyMap]
    /\ metrics = [c \in Cells |-> [requests_total |-> 0, requests_success |-> 0,
                                   requests_failed |-> 0]]
    /\ tasks = <<>>
    /\ events = 0
    /\ overflowed = [c \in Cells |-> FALSE]
    /\ stuck = [c \in Cells |-> FALSE]
    /\ bootstrap = [c \in Cells |-> IF c = "A" THEN "pending" ELSE "idle"]
    /\ \E n \in {SupervisedTasks - 1, SupervisedTasks} :
         \E kinds \in [1..n -> TaskKinds] :
            shutdown_calls = [c \in Cells |->
                                 IF c = "A"
                                 THEN [NoShutdown EXCEPT !.spawned = n, !.left = kinds]
                                 ELSE NoShutdown]
    /\ breaker_log = <<>>
    /\ ask = NoAsk

drainFrame == <<handlers, atlas, seed, overflowed, stuck, bootstrap, circuits,
                seen_nonces, active_executions, result_cache, metrics, tasks, events,
                breaker_log, ask>>

\* listen(): self.tasks.lock().await.push(server_handle), the mutex taken
TaskPush(c) ==
    /\ shutdown_calls[c].spawned < SupervisedTasks
    /\ shutdown_calls[c].holder = "none"
    /\ \E kind \in TaskKinds :
         shutdown_calls' = [shutdown_calls EXCEPT ![c].spawned = @ + 1,
                                                  ![c].left = Append(@, kind),
                                                  ![c].holder = "listen"]
    /\ UNCHANGED <<now, is_shutting_down, drainFrame>>

\* listen(): the guard of the push is dropped
TaskPushed(c) ==
    /\ shutdown_calls[c].holder = "listen"
    /\ shutdown_calls' = [shutdown_calls EXCEPT ![c].holder = "none"]
    /\ UNCHANGED <<now, is_shutting_down, drainFrame>>

\* shutdown(): the stop signal is in the channel of the server, and
\* self.tasks.lock().await returns the guard
ShutdownLock(c) ==
    /\ shutdown_calls[c].running
    /\ shutdown_calls[c].holder = "none"
    /\ shutdown_calls' = [shutdown_calls EXCEPT ![c].holder = "shutdown"]
    /\ UNCHANGED <<now, is_shutting_down, drainFrame>>

\* shutdown(): the next handle of the drain is awaited
ShutdownAwait(c) ==
    /\ shutdown_calls[c].running
    /\ shutdown_calls[c].holder = "shutdown"
    /\ shutdown_calls[c].left # <<>>
    /\ \E o \in JoinOutcomes(Head(shutdown_calls[c].left)) : now' = now + o.waited
    /\ shutdown_calls' = [shutdown_calls EXCEPT ![c].left = Tail(@)]
    /\ UNCHANGED <<is_shutting_down, drainFrame>>

DrainNext ==
    \/ ShutdownCall("A")
    \/ ShutdownRequest("A")
    \/ ShutdownSpawned("A")
    \/ TaskPush("A")
    \/ TaskPushed("A")
    \/ ShutdownLock("A")
    \/ ShutdownAwait("A")
    \/ ShutdownEnd("A")
    \/ Bootstrap("A")
    \/ BootstrapGiveUp("A")

DrainSpec == DrainInit /\ [][DrainNext]_vars

\* the mutex hands the list to every waiter in turn, every timeout elapses,
\* and a task that was started is run
DrainLiveSpec ==
    /\ DrainSpec
    /\ WF_vars(TaskPushed("A"))
    /\ WF_vars(ShutdownLock("A"))
    /\ WF_vars(ShutdownAwait("A"))
    /\ WF_vars(ShutdownEnd("A"))

\* C38: a shutdown() call that finds the lifecycle flag at 0 terminates, and
\* with the flag at 2: it waits at most 5 s for each supervised task, so at
\* most 5 s times the number of tasks after it has the task list, also when
\* a task never ends and when listen() holds the task list.
C38_ShutdownTerminates ==
    /\ [][/\ ShutdownAwait("A") => now' - now <= JoinTimeoutMs
          /\ (shutdown_calls["A"].running /\ ~shutdown_calls'["A"].running)
                => /\ is_shutting_down'["A"] = 2
                   /\ now' - shutdown_calls["A"].began
                         <= SupervisedTasks * JoinTimeoutMs]_vars
    /\ shutdown_calls["A"].running ~> ~shutdown_calls["A"].running

\* shutdown() has returned with the flag at 2 after it gave up on every task
C38_Witness ==
    /\ is_shutting_down["A"] = 2
    /\ ~shutdown_calls["A"].running
    /\ shutdown_calls["A"].spawned = SupervisedTasks
    /\ shutdown_calls["A"].left = <<>>
    /\ now - shutdown_calls["A"].began = SupervisedTasks * JoinTimeoutMs

\* shutdown() of cell c has returned
ShutdownReturned(c) == is_shutting_down[c] = 2 /\ ~shutdown_calls[c].running

\* C39: every task listen() starts is held in the supervised task list, so
\* after shutdown() has returned no task of the cell sends an RPC (no
\* request of A reaches its seed B) or merges into the atlas of the cell.
C39_NoTaskAfterShutdown ==
    [][ShutdownReturned("A")
          => /\ atlas'["A"] = atlas["A"]
             /\ seen_nonces'["B"] = seen_nonces["B"]]_vars

(***************************************************************************)
(* The hop counter: route() is handed signals whose _hops is any value the *)
(* wire can carry.                                                         *)
(***************************************************************************)
\* the values of the u8 field hops
WireHops == 0..(HopsModulus - 1)

\* the signals a peer or a client can post: a signal without deadline that
\* names no visited cell, its hop counter at any value
WireSignals ==
    {[sig EXCEPT !.hops = h] :
        sig \in {s \in ExtSignals : s.visited_cell_ids = <<>> /\ s.deadline_ms = NoDeadline},
        h \in WireHops}

HopsNext ==
    \/ \E sig \in WireSignals : Deliver("A", sig)
    \/ \E t \in TaskIds : RouteCheck(t)
    \/ \E t \in TaskIds : RouteAccept(t)
    \/ \E t \in TaskIds : ExecuteLocal(t)
    \/ \E t \in TaskIds : ExecuteForward(t)
    \/ \E t \in TaskIds : DirectTry(t)
    \/ \E t \in TaskIds : DirectReturn(t)
    \/ \E t \in TaskIds : Flood(t)
    \/ \E t \in TaskIds : FloodJoin(t)
    \/ \E t \in TaskIds : SeedTry(t)
    \/ \E t \in TaskIds : SeedReturn(t)
    \/ \E t \in TaskIds : Publish(t)

HopsSpec == Init /\ [][HopsNext]_vars

\* route() of task t accepts its signal in this step: it is past the loop
\* check
Accepts(t) ==
    /\ tasks[t].pc = "accept"
    /\ tasks'[t].pc # "accept"
    /\ ~Contains(tasks[t].incoming.visited_cell_ids, tasks[t].cell)

\* C40: each route() call that accepts a signal increases signal.hops by
\* exactly 1, and the counter never wraps or decreases, for every incoming
\* value of the 8-bit field, 0..255.
C40_HopsGrowByOne ==
    [][\A t \in TaskIds :
          Accepts(t) => tasks'[t].signal.hops = tasks[t].incoming.hops + 1]_vars

====
